---- MODULE Spec2Model ----
(***************************************************************************)
(* A model of bvim: the line buffer (buffer.rs), the window with its       *)
(* cursor, scroll and bounds (window.rs), key resolution (keymap.rs) and   *)
(* the editor with its modes, its command line and its run loop            *)
(* (editor.rs).                                                            *)
(*                                                                         *)
(* A Rust String is modelled as the sequence of its chars; every char has  *)
(* a UTF-8 width, and the String methods that take or return byte offsets  *)
(* (char_indices, insert, remove, split_off) are modelled on byte offsets. *)
(* Rust indices are 0-based, TLA+ sequences 1-based: element i of a Vec is *)
(* element i + 1 of the sequence.                                          *)
(***************************************************************************)
EXTENDS Integers, Sequences, FiniteSets, TLC

VARIABLES
    buffer,     \* Window.buffer : [lines, path, changed]
    scroll,     \* Window.scroll : [x, y]
    cursor,     \* Window.cursor : [x, y]
    bounds,     \* Window.bounds : [width, height]
    fault,      \* TRUE once an operation has panicked (the thread unwinds)
    last,       \* the operation applied last, with its arguments
    pre,        \* the window as it was before that operation
    mappings,   \* KeyMap.mappings
    kmode,      \* the mode given to the last KeyMap::handle
    kevent,     \* the event given to the last KeyMap::handle
    kresult,    \* what that call returned
    disk,       \* what the file system holds at the path: [kind, content]
    saved,      \* the lines as Buffer::save wrote or new_from_file read them
    note,       \* the last call of Buffer::save or new_from_file, its result
    editor,     \* the fields of the Editor
    message,    \* what the editor printed last on the message line
    run,        \* where Editor::run is: in its loop, or how it returned
    elast,      \* the event Editor::run read last
    quit        \* the command that has set terminate, where that is recorded

winvars == <<buffer, scroll, cursor, bounds, fault, last, pre>>
keyvars == <<mappings, kmode, kevent, kresult>>
filevars == <<disk, saved, note>>
edvars == <<editor, message, run, elast, quit>>
vars == <<buffer, scroll, cursor, bounds, fault, last, pre,
          mappings, kmode, kevent, kresult,
          disk, saved, note, editor, message, run, elast, quit>>

----------------------------------------------------------------------------
(* Bounds of the model *)

\* most lines a buffer grows to by insert_char('\n')
MaxLines == 2
\* most chars a buffer grows to by insert_char(c)
MaxChars == 2
\* widest and highest bounds given to Window::new and set_bounds
MaxWidth == 2
MaxHeight == 2
\* longest file content read by new_from_file
MaxFileLen == 2
\* most lines and most chars of a buffer that is saved and opened again, the
\* chars also of the file it is first read from
MaxSaveLines == 2
MaxSaveChars == 1
\* most chars the text of the Editor grows to, and the longest file content
\* Editor::new_with_file reads
MaxTextLen == 1

----------------------------------------------------------------------------
(* Chars and Strings *)

NL == "\n"
CR == "\r"
\* the chars typed into a line: a space, which is whitespace and one byte of
\* UTF-8, and an e with acute accent, which is not whitespace and two bytes
TextChars == {" ", "é"}
FileChars == TextChars \cup {NL, CR}

\* char::len_utf8
len_utf8(c) == IF c = "é" THEN 2 ELSE 1

\* char::is_whitespace
is_whitespace(c) == c \in {" ", NL, CR}

Min(a, b) == IF a < b THEN a ELSE b

RECURSIVE str_len(_)
\* String::len, in bytes
str_len(s) == IF s = <<>> THEN 0 ELSE len_utf8(Head(s)) + str_len(Tail(s))

\* str.chars().count()
chars_count(s) == Len(s)

\* Option<T>: None is the empty set, Some(v) the set {v}
None == {}
Some(v) == {v}
unwrap(o) == CHOOSE v \in o : TRUE

\* str.char_indices().nth(n): the byte offset of char n, or None
char_indices_nth(s, n) ==
    IF n < Len(s) THEN Some(str_len(SubSeq(s, 1, n))) ELSE None

\* str::is_char_boundary
is_char_boundary(s, idx) ==
    \E k \in 0..Len(s) : str_len(SubSeq(s, 1, k)) = idx

\* the number of chars before byte offset idx, a char boundary
chars_before(s, idx) ==
    CHOOSE k \in 0..Len(s) : str_len(SubSeq(s, 1, k)) = idx

\* String::insert(idx, c), for idx a char boundary (it panics otherwise)
string_insert(s, idx, c) ==
    LET k == chars_before(s, idx)
    IN  SubSeq(s, 1, k) \o <<c>> \o SubSeq(s, k + 1, Len(s))

\* String::remove(idx), for idx the start of a char (it panics otherwise)
string_remove(s, idx) ==
    LET k == chars_before(s, idx)
    IN  SubSeq(s, 1, k) \o SubSeq(s, k + 2, Len(s))

\* String::split_off(at), for at a char boundary (it panics otherwise):
\* <<what stays, what is returned>>
string_split_off(s, at) ==
    LET k == chars_before(s, at)
    IN  <<SubSeq(s, 1, k), SubSeq(s, k + 1, Len(s))>>

\* Vec::insert(index, element), index 0-based
vec_insert(v, index, e) ==
    SubSeq(v, 1, index) \o <<e>> \o SubSeq(v, index + 1, Len(v))

\* Vec::remove(index), index 0-based: the Vec that is left
vec_remove(v, index) ==
    SubSeq(v, 1, index) \o SubSeq(v, index + 2, Len(v))

RECURSIVE split(_, _)
\* str::split(sep): the pieces between the separators, at least one
split(s, sep) ==
    IF \A i \in 1..Len(s) : s[i] # sep THEN <<s>>
    ELSE LET i == CHOOSE j \in 1..Len(s) :
                      s[j] = sep /\ \A h \in 1..(j - 1) : s[h] # sep
         IN  <<SubSeq(s, 1, i - 1)>> \o split(SubSeq(s, i + 1, Len(s)), sep)

\* str::replace(c, ""): s without its chars c
replace_with_empty(s, c) == SelectSeq(s, LAMBDA d : d # c)

----------------------------------------------------------------------------
(* buffer.rs *)

NoPath == "none"
Paths == {"f"}

\* Buffer::new_with_path
new_with_path(path) ==
    [lines |-> << <<>> >>, path |-> path, changed |-> FALSE]

\* Buffer::new
Buffer_new == new_with_path(NoPath)

\* What new_from_file finds at the path: nothing, a directory, or a file
FsEntries ==
    {[kind |-> "missing", content |-> <<>>], [kind |-> "dir", content |-> <<>>]}
    \cup {[kind |-> "file", content |-> c] :
            c \in UNION {[1..n -> FileChars] : n \in 0..MaxFileLen}}

\* new_from_file with the lines taken as str::lines() takes them: a last
\* empty line is dropped
new_from_file_str_lines(path, entry) ==
    IF entry.kind = "missing" THEN new_with_path(path)
    ELSE IF entry.kind = "dir" THEN Buffer_new
    ELSE LET pieces == split(entry.content, NL)
             kept == IF pieces[Len(pieces)] = <<>>
                     THEN SubSeq(pieces, 1, Len(pieces) - 1) ELSE pieces
         IN  [lines |-> [i \in 1..Len(kept) |->
                             replace_with_empty(kept[i], CR)],
              path |-> path,
              changed |-> FALSE]

\* Buffer::new_from_file, when read_to_string succeeds
new_from_file(path, entry) ==
    IF entry.kind = "missing" THEN new_with_path(path)
    ELSE IF entry.kind = "dir" THEN Buffer_new
    ELSE LET pieces == split(entry.content, NL)
         IN  [lines |-> [i \in 1..Len(pieces) |->
                             replace_with_empty(pieces[i], CR)],
              path |-> path,
              changed |-> FALSE]

\* Buffer::line_length
line_length(b, index) == chars_count(b.lines[index + 1])

RECURSIVE total_chars(_)
total_chars(lines) ==
    IF lines = <<>> THEN 0 ELSE Len(Head(lines)) + total_chars(Tail(lines))

\* Notification::new; a formatted text is kept as its format and arguments
Notification_new(fmt, args, level) ==
    [fmt |-> fmt, args |-> args, level |-> level]

\* Result<T>
Ok(v) == [ok |-> TRUE, value |-> Some(v)]
Err == [ok |-> FALSE, value |-> None]

\* the slices written if every line had a newline after it, the last too
write_calls_newline_each(lines) ==
    [k \in 1..(2 * Len(lines)) |->
        IF k % 2 = 1 THEN lines[(k + 1) \div 2] ELSE <<NL>>]

\* the slices save hands to write_all, in their order: every line but the
\* last with a newline after it, then the last line
write_calls(lines) ==
    [k \in 1..(2 * Len(lines) - 1) |->
        IF k % 2 = 1 THEN lines[(k + 1) \div 2] ELSE <<NL>>]

RECURSIVE concat(_)
concat(slices) ==
    IF slices = <<>> THEN <<>> ELSE Head(slices) \o concat(Tail(slices))

\* How the file system answers one save: every call succeeds, or
\* File::create fails, or a write_all of a slice that is not empty fails
\* after the calls before it have written theirs.
IoOk == [fails |-> "never", after |-> 0]
IoCreateFails == [fails |-> "create", after |-> 0]
IoOutcomes(lines) ==
    {IoOk, IoCreateFails}
    \cup {[fails |-> "write", after |-> k] :
            k \in {j \in 0..(2 * Len(lines) - 2) :
                     write_calls(lines)[j + 1] # <<>>}}

\* write_file on a file opened to append: what the path held stays
write_file_appending(entry, lines, io) ==
    IF io.fails = "create" \/ entry.kind = "dir"
    THEN [entry |-> entry, ok |-> FALSE]
    ELSE LET calls == write_calls(lines)
             done == IF io.fails = "write" THEN io.after ELSE Len(calls)
         IN  [entry |-> [kind |-> "file",
                         content |-> entry.content
                                     \o concat(SubSeq(calls, 1, done))],
              ok |-> io.fails = "never"]

\* File::create(path) and the calls of write_all: what the path holds
\* afterwards, and whether every call succeeded. File::create truncates.
write_file(entry, lines, io) ==
    IF io.fails = "create" \/ entry.kind = "dir"
    THEN [entry |-> entry, ok |-> FALSE]
    ELSE LET calls == write_calls(lines)
             done == IF io.fails = "write" THEN io.after ELSE Len(calls)
         IN  [entry |-> [kind |-> "file",
                         content |-> concat(SubSeq(calls, 1, done))],
              ok |-> io.fails = "never"]

\* save with the changed flag cleared also where a call fails
save_clears_on_error(b, entry, io) ==
    IF b.path # NoPath
    THEN LET w == write_file(entry, b.lines, io)
         IN  IF w.ok
             THEN [buffer |-> [b EXCEPT !.changed = FALSE],
                   disk |-> w.entry,
                   result |-> Ok(Notification_new("\"{}\" {}L written",
                                                  <<b.path, Len(b.lines)>>,
                                                  "Info"))]
             ELSE [buffer |-> [b EXCEPT !.changed = FALSE],
                   disk |-> w.entry, result |-> Err]
    ELSE [buffer |-> b,
          disk |-> entry,
          result |-> Ok(Notification_new("Could not save: No file name",
                                         <<>>, "Error"))]

\* Buffer::save: the buffer it leaves, what the path holds, and the result
save(b, entry, io) ==
    IF b.path # NoPath
    THEN LET w == write_file(entry, b.lines, io)
         IN  IF w.ok
             THEN [buffer |-> [b EXCEPT !.changed = FALSE],
                   disk |-> w.entry,
                   result |-> Ok(Notification_new("\"{}\" {}L written",
                                                  <<b.path, Len(b.lines)>>,
                                                  "Info"))]
             ELSE [buffer |-> b, disk |-> w.entry, result |-> Err]
    ELSE [buffer |-> b,
          disk |-> entry,
          result |-> Ok(Notification_new("Could not save: No file name",
                                         <<>>, "Error"))]

----------------------------------------------------------------------------
(* window.rs: every operation maps a Window, the record                    *)
(* [buffer, scroll, cursor, bounds, panic], to the Window it leaves;       *)
(* panic is set when the operation panics, and the fields are then those   *)
(* at the panic.                                                           *)

Position_new(x, y) == [x |-> x, y |-> y]

\* Window::new
Window_new(b, bnds) ==
    [buffer |-> b, scroll |-> Position_new(0, 0), cursor |-> Position_new(0, 0),
     bounds |-> bnds, panic |-> FALSE]

Panic(w) == [w EXCEPT !.panic = TRUE]

\* the current line, self.buffer.lines[self.cursor.y]
cur_line(w) == w.buffer.lines[w.cursor.y + 1]

\* set_bounds that replaces the bounds and leaves the scroll
set_bounds_keeps_scroll(w, bnds) == [w EXCEPT !.bounds = bnds]

\* Window::set_bounds. The usize subtractions cursor - scroll overflow when
\* the cursor is before the scroll: a panic with overflow checks.
set_bounds(w, bnds) ==
    IF w.cursor.y < w.scroll.y \/ w.cursor.x < w.scroll.x
    THEN Panic([w EXCEPT !.bounds = bnds])
    ELSE LET sy == IF w.cursor.y - w.scroll.y >= bnds.height
                   THEN w.cursor.y - bnds.height + 1 ELSE w.scroll.y
             sx == IF w.cursor.x - w.scroll.x >= bnds.width
                   THEN w.cursor.x - bnds.width + 1 ELSE w.scroll.x
         IN  [w EXCEPT !.bounds = bnds, !.scroll = Position_new(sx, sy)]

\* move_up with the column kept as it is on the line above
move_up_unclamped(w) ==
    IF w.cursor.y > 0
    THEN LET y == w.cursor.y - 1
             sy == IF y < w.scroll.y THEN w.scroll.y - 1 ELSE w.scroll.y
         IN  [w EXCEPT !.cursor.y = y, !.scroll.y = sy]
    ELSE w

\* Window::move_up
move_up(w) ==
    IF w.cursor.y > 0
    THEN LET y == w.cursor.y - 1
             x == Min(w.cursor.x, line_length(w.buffer, y))
             sx == IF x < w.scroll.x THEN x ELSE w.scroll.x
             sy == IF y < w.scroll.y THEN w.scroll.y - 1 ELSE w.scroll.y
         IN  [w EXCEPT !.cursor = Position_new(x, y),
                       !.scroll = Position_new(sx, sy)]
    ELSE w

\* move_down with the column kept as it is on the line below
move_down_unclamped(w) ==
    IF w.cursor.y < Len(w.buffer.lines) - 1
    THEN LET y == w.cursor.y + 1
             sy == IF y >= w.scroll.y + w.bounds.height
                   THEN w.scroll.y + 1 ELSE w.scroll.y
         IN  [w EXCEPT !.cursor.y = y, !.scroll.y = sy]
    ELSE w

\* Window::move_down
move_down(w) ==
    IF w.cursor.y < Len(w.buffer.lines) - 1
    THEN LET y == w.cursor.y + 1
             x == Min(w.cursor.x, line_length(w.buffer, y))
             sx == IF x < w.scroll.x THEN x ELSE w.scroll.x
             sy == IF y >= w.scroll.y + w.bounds.height
                   THEN w.scroll.y + 1 ELSE w.scroll.y
         IN  [w EXCEPT !.cursor = Position_new(x, y),
                       !.scroll = Position_new(sx, sy)]
    ELSE w

\* move_left that does not scroll right when it wraps to the line above
move_left_no_scroll_right(w) ==
    IF w.cursor.x > 0
    THEN LET x == w.cursor.x - 1
             sx == IF x < w.scroll.x THEN w.scroll.x - 1 ELSE w.scroll.x
         IN  [w EXCEPT !.cursor.x = x, !.scroll.x = sx]
    ELSE IF w.cursor.y > 0
    THEN LET y == w.cursor.y - 1
             x == line_length(w.buffer, y)
             sy == IF y < w.scroll.y THEN w.scroll.y - 1 ELSE w.scroll.y
         IN  [w EXCEPT !.cursor = Position_new(x, y), !.scroll.y = sy]
    ELSE w

\* Window::move_left
move_left(w) ==
    IF w.cursor.x > 0
    THEN LET x == w.cursor.x - 1
             sx == IF x < w.scroll.x THEN w.scroll.x - 1 ELSE w.scroll.x
         IN  [w EXCEPT !.cursor.x = x, !.scroll.x = sx]
    ELSE IF w.cursor.y > 0
    THEN LET y == w.cursor.y - 1
             x == line_length(w.buffer, y)
             sx == IF x >= w.scroll.x + w.bounds.width
                   THEN x - w.bounds.width + 1 ELSE w.scroll.x
             sy == IF y < w.scroll.y THEN w.scroll.y - 1 ELSE w.scroll.y
         IN  [w EXCEPT !.cursor = Position_new(x, y),
                       !.scroll = Position_new(sx, sy)]
    ELSE w

\* move_right that stays at the end of a line that has a successor
move_right_no_wrap(w) ==
    IF w.cursor.x < line_length(w.buffer, w.cursor.y)
    THEN LET x == w.cursor.x + 1
             sx == IF x >= w.scroll.x + w.bounds.width
                   THEN w.scroll.x + 1 ELSE w.scroll.x
         IN  [w EXCEPT !.cursor.x = x, !.scroll.x = sx]
    ELSE w

\* Window::move_right
move_right(w) ==
    IF w.cursor.x < line_length(w.buffer, w.cursor.y)
    THEN LET x == w.cursor.x + 1
             sx == IF x >= w.scroll.x + w.bounds.width
                   THEN w.scroll.x + 1 ELSE w.scroll.x
         IN  [w EXCEPT !.cursor.x = x, !.scroll.x = sx]
    ELSE IF w.cursor.y < Len(w.buffer.lines) - 1
    THEN LET y == w.cursor.y + 1
             sy == IF y >= w.scroll.y + w.bounds.height
                   THEN w.scroll.y + 1 ELSE w.scroll.y
         IN  [w EXCEPT !.cursor = Position_new(0, y),
                       !.scroll = Position_new(0, sy)]
    ELSE w

\* move_to_start_of_line that marks the buffer as changed
move_to_start_of_line_dirty(w) ==
    [w EXCEPT !.cursor.x = 0, !.scroll.x = 0, !.buffer.changed = TRUE]

\* Window::move_to_start_of_line
move_to_start_of_line(w) == [w EXCEPT !.cursor.x = 0, !.scroll.x = 0]

\* move_to_first_char_in_line whose scan does not break at the first match,
\* so that the last char that is not whitespace is taken
move_to_first_char_in_line_no_break(w) ==
    LET line == cur_line(w)
        found == {i \in 1..Len(line) : ~is_whitespace(line[i])}
        x == IF found = {} THEN w.cursor.x
             ELSE (CHOOSE i \in found : \A j \in found : i >= j) - 1
        sx1 == IF x < w.scroll.x THEN x ELSE w.scroll.x
        sx == IF x >= sx1 + w.bounds.width
              THEN x - w.bounds.width + 1 ELSE sx1
    IN  [w EXCEPT !.cursor.x = x, !.scroll.x = sx]

\* Window::move_to_first_char_in_line
move_to_first_char_in_line(w) ==
    LET line == cur_line(w)
        found == {i \in 1..Len(line) : ~is_whitespace(line[i])}
        x == IF found = {} THEN w.cursor.x
             ELSE (CHOOSE i \in found : \A j \in found : i <= j) - 1
        sx1 == IF x < w.scroll.x THEN x ELSE w.scroll.x
        sx == IF x >= sx1 + w.bounds.width
              THEN x - w.bounds.width + 1 ELSE sx1
    IN  [w EXCEPT !.cursor.x = x, !.scroll.x = sx]

\* move_to_end_of_line that, where it has to scroll right, scrolls until the
\* cursor is in the leftmost column
move_to_end_of_line_scroll_to_cursor(w) ==
    LET x == line_length(w.buffer, w.cursor.y)
        sx == IF x >= w.scroll.x + w.bounds.width THEN x ELSE w.scroll.x
    IN  [w EXCEPT !.cursor.x = x, !.scroll.x = sx]

\* Window::move_to_end_of_line
move_to_end_of_line(w) ==
    LET x == line_length(w.buffer, w.cursor.y)
        sx == IF x >= w.scroll.x + w.bounds.width
              THEN x - w.bounds.width + 1 ELSE w.scroll.x
    IN  [w EXCEPT !.cursor.x = x, !.scroll.x = sx]

\* the arm for '\n' with the new line inserted at cursor.y, before the
\* line it was split from
insert_newline_before(w) ==
    LET line == cur_line(w)
        index == char_indices_nth(line, w.cursor.x)
        parts == IF w.cursor.x = 0 THEN <<<<>>, line>>
                 ELSE IF index # None THEN string_split_off(line, unwrap(index))
                 ELSE <<line, <<>>>>
        lines1 == [w.buffer.lines EXCEPT ![w.cursor.y + 1] = parts[1]]
        lines2 == vec_insert(lines1, w.cursor.y, parts[2])
        y == w.cursor.y + 1
        sy == IF y >= w.scroll.y + w.bounds.height
              THEN w.scroll.y + 1 ELSE w.scroll.y
    IN  [w EXCEPT !.buffer.lines = lines2,
                  !.cursor = Position_new(0, y),
                  !.scroll = Position_new(0, sy)]

\* Window::insert_char, the arm for '\n'
insert_newline(w) ==
    LET line == cur_line(w)
        index == char_indices_nth(line, w.cursor.x)
        parts == IF w.cursor.x = 0 THEN <<<<>>, line>>
                 ELSE IF index # None THEN string_split_off(line, unwrap(index))
                 ELSE <<line, <<>>>>
        lines1 == [w.buffer.lines EXCEPT ![w.cursor.y + 1] = parts[1]]
        lines2 == vec_insert(lines1, w.cursor.y + 1, parts[2])
        y == w.cursor.y + 1
        sy == IF y >= w.scroll.y + w.bounds.height
              THEN w.scroll.y + 1 ELSE w.scroll.y
    IN  IF w.cursor.x # 0 /\ index # None
              /\ ~is_char_boundary(line, unwrap(index))
        THEN Panic(w)
        ELSE [w EXCEPT !.buffer.lines = lines2,
                       !.cursor = Position_new(0, y),
                       !.scroll = Position_new(0, sy)]

\* the arm for every other char with cursor.x taken as the byte offset
insert_other_at_byte(w, c) ==
    LET line == cur_line(w)
        index == Min(w.cursor.x, str_len(line))
        x == w.cursor.x + 1
        sx == IF x >= w.scroll.x + w.bounds.width
              THEN w.scroll.x + 1 ELSE w.scroll.x
    IN  IF ~is_char_boundary(line, index) THEN Panic(w)
        ELSE [w EXCEPT !.buffer.lines[w.cursor.y + 1] =
                           string_insert(line, index, c),
                       !.cursor.x = x,
                       !.scroll.x = sx]

\* Window::insert_char, the arm for every other char
insert_other(w, c) ==
    LET line == cur_line(w)
        nth == char_indices_nth(line, w.cursor.x)
        index == IF nth # None THEN unwrap(nth) ELSE str_len(line)
        x == w.cursor.x + 1
        sx == IF x >= w.scroll.x + w.bounds.width
              THEN w.scroll.x + 1 ELSE w.scroll.x
    IN  IF ~is_char_boundary(line, index) THEN Panic(w)
        ELSE [w EXCEPT !.buffer.lines[w.cursor.y + 1] =
                           string_insert(line, index, c),
                       !.cursor.x = x,
                       !.scroll.x = sx]

\* insert_char that leaves the cursor before the char it has inserted
insert_char_cursor_stays(w, c) ==
    LET r == IF c = NL THEN insert_newline(w)
             ELSE [insert_other(w, c) EXCEPT !.cursor = w.cursor,
                                             !.scroll = w.scroll]
    IN  [r EXCEPT !.buffer.changed = TRUE]

\* Window::insert_char
insert_char(w, c) ==
    LET r == IF c = NL THEN insert_newline(w) ELSE insert_other(w, c)
    IN  [r EXCEPT !.buffer.changed = TRUE]

\* remove_char that appends the line before it moves the cursor, so that the
\* column is the length of the joined line
remove_char_moves_after_join(w) ==
    IF w.cursor.x = 0
    THEN IF w.cursor.y > 0
         THEN LET line == cur_line(w)
                  lines1 == vec_remove(w.buffer.lines, w.cursor.y)
                  y == w.cursor.y - 1
                  lines2 == [lines1 EXCEPT ![y + 1] = @ \o line]
                  x == chars_count(lines2[y + 1])
                  sy == IF y < w.scroll.y THEN w.scroll.y - 1 ELSE w.scroll.y
                  sx == IF x >= w.scroll.x + w.bounds.width
                        THEN x - w.bounds.width + 1 ELSE w.scroll.x
              IN  [w EXCEPT !.buffer.lines = lines2,
                            !.buffer.changed = TRUE,
                            !.cursor = Position_new(x, y),
                            !.scroll = Position_new(sx, sy)]
         ELSE w
    ELSE LET x == w.cursor.x - 1
             nth == char_indices_nth(cur_line(w), x)
             sx == IF x < w.scroll.x THEN w.scroll.x - 1 ELSE w.scroll.x
         IN  IF nth = None THEN Panic([w EXCEPT !.cursor.x = x])
             ELSE [w EXCEPT !.buffer.lines[w.cursor.y + 1] =
                                string_remove(cur_line(w), unwrap(nth)),
                            !.buffer.changed = TRUE,
                            !.cursor.x = x,
                            !.scroll.x = sx]

\* remove_char that removes the char under the cursor, not the one in front
\* of it, where there is one
remove_char_under_cursor(w) ==
    IF w.cursor.x = 0
    THEN IF w.cursor.y > 0
         THEN LET line == cur_line(w)
                  lines1 == vec_remove(w.buffer.lines, w.cursor.y)
                  y == w.cursor.y - 1
                  x == chars_count(lines1[y + 1])
                  lines2 == [lines1 EXCEPT ![y + 1] = @ \o line]
                  sy == IF y < w.scroll.y THEN w.scroll.y - 1 ELSE w.scroll.y
                  sx == IF x >= w.scroll.x + w.bounds.width
                        THEN x - w.bounds.width + 1 ELSE w.scroll.x
              IN  [w EXCEPT !.buffer.lines = lines2,
                            !.buffer.changed = TRUE,
                            !.cursor = Position_new(x, y),
                            !.scroll = Position_new(sx, sy)]
         ELSE w
    ELSE LET x == w.cursor.x - 1
             at == Min(w.cursor.x, Len(cur_line(w)) - 1)
             nth == char_indices_nth(cur_line(w), at)
             sx == IF x < w.scroll.x THEN w.scroll.x - 1 ELSE w.scroll.x
         IN  IF nth = None THEN Panic([w EXCEPT !.cursor.x = x])
             ELSE [w EXCEPT !.buffer.lines[w.cursor.y + 1] =
                                string_remove(cur_line(w), unwrap(nth)),
                            !.buffer.changed = TRUE,
                            !.cursor.x = x,
                            !.scroll.x = sx]

\* remove_char that sets the dirty flag also where it has nothing to remove
remove_char_always_dirty(w) ==
    IF w.cursor.x = 0
    THEN IF w.cursor.y > 0
         THEN LET line == cur_line(w)
                  lines1 == vec_remove(w.buffer.lines, w.cursor.y)
                  y == w.cursor.y - 1
                  x == chars_count(lines1[y + 1])
                  lines2 == [lines1 EXCEPT ![y + 1] = @ \o line]
                  sy == IF y < w.scroll.y THEN w.scroll.y - 1 ELSE w.scroll.y
                  sx == IF x >= w.scroll.x + w.bounds.width
                        THEN x - w.bounds.width + 1 ELSE w.scroll.x
              IN  [w EXCEPT !.buffer.lines = lines2,
                            !.buffer.changed = TRUE,
                            !.cursor = Position_new(x, y),
                            !.scroll = Position_new(sx, sy)]
         ELSE [w EXCEPT !.buffer.changed = TRUE]
    ELSE LET x == w.cursor.x - 1
             nth == char_indices_nth(cur_line(w), x)
             sx == IF x < w.scroll.x THEN w.scroll.x - 1 ELSE w.scroll.x
         IN  IF nth = None THEN Panic([w EXCEPT !.cursor.x = x])
             ELSE [w EXCEPT !.buffer.lines[w.cursor.y + 1] =
                                string_remove(cur_line(w), unwrap(nth)),
                            !.buffer.changed = TRUE,
                            !.cursor.x = x,
                            !.scroll.x = sx]

\* Window::remove_char
remove_char(w) ==
    IF w.cursor.x = 0
    THEN IF w.cursor.y > 0
         THEN LET line == cur_line(w)
                  lines1 == vec_remove(w.buffer.lines, w.cursor.y)
                  y == w.cursor.y - 1
                  x == chars_count(lines1[y + 1])
                  lines2 == [lines1 EXCEPT ![y + 1] = @ \o line]
                  sy == IF y < w.scroll.y THEN w.scroll.y - 1 ELSE w.scroll.y
                  sx == IF x >= w.scroll.x + w.bounds.width
                        THEN x - w.bounds.width + 1 ELSE w.scroll.x
              IN  [w EXCEPT !.buffer.lines = lines2,
                            !.buffer.changed = TRUE,
                            !.cursor = Position_new(x, y),
                            !.scroll = Position_new(sx, sy)]
         ELSE w
    ELSE LET x == w.cursor.x - 1
             nth == char_indices_nth(cur_line(w), x)
             sx == IF x < w.scroll.x THEN w.scroll.x - 1 ELSE w.scroll.x
         IN  IF nth = None THEN Panic([w EXCEPT !.cursor.x = x])
             ELSE [w EXCEPT !.buffer.lines[w.cursor.y + 1] =
                                string_remove(cur_line(w), unwrap(nth)),
                            !.buffer.changed = TRUE,
                            !.cursor.x = x,
                            !.scroll.x = sx]

\* The test of Window::delete_char for a line to join, on the line count n:
\* self.cursor.y < self.buffer.lines.len() - 2
has_line_to_join(y, n) == y < n - 2

\* Window::delete_char. At the end of the only line, lines.len() - 2
\* overflows usize: a panic with overflow checks; without them the
\* difference wraps, the test holds and Vec::remove(1) panics, its index
\* out of bounds.
delete_char(w) ==
    IF w.cursor.x = line_length(w.buffer, w.cursor.y)
    THEN IF Len(w.buffer.lines) < 2 THEN Panic(w)
         ELSE IF has_line_to_join(w.cursor.y, Len(w.buffer.lines))
         THEN LET line == w.buffer.lines[w.cursor.y + 2]
                  lines1 == vec_remove(w.buffer.lines, w.cursor.y + 1)
              IN  [w EXCEPT !.buffer.lines =
                                [lines1 EXCEPT ![w.cursor.y + 1] = @ \o line],
                            !.buffer.changed = TRUE]
         ELSE w
    ELSE LET nth == char_indices_nth(cur_line(w), w.cursor.x)
         IN  IF nth = None THEN Panic(w)
             ELSE [w EXCEPT !.buffer.lines[w.cursor.y + 1] =
                                string_remove(cur_line(w), unwrap(nth)),
                            !.buffer.changed = TRUE]

----------------------------------------------------------------------------
(* keymap.rs *)

Modes == {"Normal", "Insert", "Command"}

\* KeyModifiers, a set of flags
SHIFT == {"SHIFT"}
CONTROL == {"CONTROL"}
KeyModifiers_empty == {}
ModifierSets == SUBSET (SHIFT \cup CONTROL)

\* KeyCode: Char(c) and the keys without a char
Char(c) == [kind |-> "Char", c |-> c]
Code(kind) == [kind |-> kind, c |-> ""]
KeyChars == {"i", "a", ":", "c", "k", "j", "h", "l", "x", "0", "^", "$",
             "A", "I", "z"}
KeyCodes ==
    {Char(c) : c \in KeyChars}
    \cup {Code(k) : k \in {"Esc", "Enter", "Backspace", "Delete", "Up", "Down",
                           "Left", "Right", "Home", "End"}}

\* KeyEvent
KeyEvent(code, modifiers) == [code |-> code, modifiers |-> modifiers]

\* enum Modifiers
Modifiers_Any == [kind |-> "Any", m |-> {}]
Modifiers_Match(m) == [kind |-> "Match", m |-> m]

\* Key::any, Key::unmodified, Key::modified
Key_any(mode, key) == [mode |-> mode, key |-> key, modifiers |-> Modifiers_Any]
Key_unmodified(mode, key) ==
    [mode |-> mode, key |-> key,
     modifiers |-> Modifiers_Match(KeyModifiers_empty)]
Key_modified(mode, key, modifiers) ==
    [mode |-> mode, key |-> key, modifiers |-> Modifiers_Match(modifiers)]

\* enum Action
Action(name) == [act |-> name, arg |-> ""]
ChangeMode(mode) == [act |-> "ChangeMode", arg |-> mode]
InsertCharAction(c) == [act |-> "InsertChar", arg |-> c]
InsertCharCommand(c) == [act |-> "InsertCharCommand", arg |-> c]

\* HashMap::insert and HashMap::get
hash_insert(m, k, v) == [x \in DOMAIN m \cup {k} |-> IF x = k THEN v ELSE m[x]]
hash_get(m, k) == IF k \in DOMAIN m THEN Some(m[k]) ELSE None

\* the calls of mappings.insert in KeyMap::default, in their order
DefaultEntries == <<
    <<Key_unmodified("Normal", Char("i")), <<ChangeMode("Insert")>> >>,
    <<Key_unmodified("Normal", Char("a")),
      <<Action("MoveRight"), ChangeMode("Insert")>> >>,
    <<Key_unmodified("Normal", Char(":")), <<ChangeMode("Command")>> >>,
    <<Key_unmodified("Insert", Code("Esc")), <<ChangeMode("Normal")>> >>,
    <<Key_modified("Insert", Char("c"), CONTROL), <<ChangeMode("Normal")>> >>,
    <<Key_unmodified("Command", Code("Esc")), <<ChangeMode("Normal")>> >>,
    <<Key_modified("Command", Char("c"), CONTROL), <<ChangeMode("Normal")>> >>,
    <<Key_unmodified("Normal", Code("Up")), <<Action("MoveUp")>> >>,
    <<Key_unmodified("Normal", Code("Down")), <<Action("MoveDown")>> >>,
    <<Key_unmodified("Normal", Code("Left")), <<Action("MoveLeft")>> >>,
    <<Key_unmodified("Normal", Code("Right")), <<Action("MoveRight")>> >>,
    <<Key_unmodified("Insert", Code("Up")), <<Action("MoveUp")>> >>,
    <<Key_unmodified("Insert", Code("Down")), <<Action("MoveDown")>> >>,
    <<Key_unmodified("Insert", Code("Left")), <<Action("MoveLeft")>> >>,
    <<Key_unmodified("Insert", Code("Right")), <<Action("MoveRight")>> >>,
    <<Key_unmodified("Normal", Code("Home")), <<Action("MoveToStartOfLine")>> >>,
    <<Key_unmodified("Insert", Code("Home")), <<Action("MoveToStartOfLine")>> >>,
    <<Key_unmodified("Normal", Code("End")), <<Action("MoveToEndOfLine")>> >>,
    <<Key_unmodified("Insert", Code("End")), <<Action("MoveToEndOfLine")>> >>,
    <<Key_unmodified("Normal", Char("k")), <<Action("MoveUp")>> >>,
    <<Key_unmodified("Normal", Char("j")), <<Action("MoveDown")>> >>,
    <<Key_unmodified("Normal", Char("h")), <<Action("MoveLeft")>> >>,
    <<Key_unmodified("Normal", Char("l")), <<Action("MoveRight")>> >>,
    <<Key_unmodified("Insert", Code("Enter")), <<InsertCharAction(NL)>> >>,
    <<Key_unmodified("Insert", Code("Backspace")), <<Action("RemoveChar")>> >>,
    <<Key_unmodified("Insert", Code("Delete")), <<Action("DeleteChar")>> >>,
    <<Key_unmodified("Normal", Code("Delete")), <<Action("DeleteChar")>> >>,
    <<Key_unmodified("Normal", Char("x")), <<Action("DeleteChar")>> >>,
    <<Key_unmodified("Command", Code("Enter")), <<Action("ExecuteCommand")>> >>,
    <<Key_unmodified("Command", Code("Backspace")),
      <<Action("RemoveCharCommand")>> >>,
    <<Key_unmodified("Normal", Char("0")), <<Action("MoveToStartOfLine")>> >>,
    <<Key_any("Normal", Char("^")), <<Action("MoveToFirstCharacterInLine")>> >>,
    <<Key_any("Normal", Char("$")), <<Action("MoveToEndOfLine")>> >>,
    <<Key_modified("Normal", Char("A"), SHIFT),
      <<Action("MoveToEndOfLine"), ChangeMode("Insert")>> >>,
    <<Key_modified("Normal", Char("I"), SHIFT),
      <<Action("MoveToFirstCharacterInLine"), ChangeMode("Insert")>> >>
>>

RECURSIVE insert_all_reversed(_, _)
\* insert_all with the actions of every entry put in the reverse order
insert_all_reversed(m, entries) ==
    IF entries = <<>> THEN m
    ELSE LET actions == Head(entries)[2]
             reversed == [i \in 1..Len(actions) |->
                              actions[Len(actions) + 1 - i]]
         IN  insert_all_reversed(hash_insert(m, Head(entries)[1], reversed),
                                 Tail(entries))

RECURSIVE insert_all(_, _)
\* m after mappings.insert(key, actions) for every entry, first to last
insert_all(m, entries) ==
    IF entries = <<>> THEN m
    ELSE insert_all(hash_insert(m, Head(entries)[1], Head(entries)[2]),
                    Tail(entries))

\* HashMap::new
HashMap_new == <<>>

\* KeyMap::default
KeyMap_default == insert_all(HashMap_new, DefaultEntries)

\* KeyMap::handle with the table asked first, and the pass-through of typed
\* chars only for a key the table does not hold
handle_table_first(m, mode, event) ==
    LET res == hash_get(m, Key_modified(mode, event.code, event.modifiers))
        res_any == hash_get(m, Key_any(mode, event.code))
    IN  IF res # None THEN res
        ELSE IF res_any # None THEN res_any
        ELSE IF /\ event.modifiers = KeyModifiers_empty
                   \/ event.modifiers = SHIFT
                /\ event.code.kind = "Char"
                /\ mode = "Insert"
        THEN Some(<<InsertCharAction(event.code.c)>>)
        ELSE IF /\ event.modifiers = KeyModifiers_empty
                   \/ event.modifiers = SHIFT
                /\ event.code.kind = "Char"
                /\ mode = "Command"
        THEN Some(<<InsertCharCommand(event.code.c)>>)
        ELSE None

\* KeyMap::handle with the entry for any modifiers asked before the entry
\* for the event's modifiers
handle_any_first(m, mode, event) ==
    IF /\ event.modifiers = KeyModifiers_empty \/ event.modifiers = SHIFT
       /\ event.code.kind = "Char"
       /\ mode = "Insert"
    THEN Some(<<InsertCharAction(event.code.c)>>)
    ELSE IF /\ event.modifiers = KeyModifiers_empty \/ event.modifiers = SHIFT
            /\ event.code.kind = "Char"
            /\ mode = "Command"
    THEN Some(<<InsertCharCommand(event.code.c)>>)
    ELSE LET res == hash_get(m, Key_modified(mode, event.code, event.modifiers))
             res_any == hash_get(m, Key_any(mode, event.code))
         IN  IF res_any # None THEN res_any ELSE res

\* KeyMap::handle
handle(m, mode, event) ==
    IF /\ event.modifiers = KeyModifiers_empty \/ event.modifiers = SHIFT
       /\ event.code.kind = "Char"
       /\ mode = "Insert"
    THEN Some(<<InsertCharAction(event.code.c)>>)
    ELSE IF /\ event.modifiers = KeyModifiers_empty \/ event.modifiers = SHIFT
            /\ event.code.kind = "Char"
            /\ mode = "Command"
    THEN Some(<<InsertCharCommand(event.code.c)>>)
    ELSE LET key == Key_modified(mode, event.code, event.modifiers)
             res == hash_get(m, key)
             key_any == Key_any(mode, event.code)
             res_any == hash_get(m, key_any)
         IN  IF res # None THEN res ELSE res_any

----------------------------------------------------------------------------
(* editor.rs: every method maps an editor at work, the record              *)
(* [ed, message, disk, err, panic], to the one it leaves. ed holds the     *)
(* fields of the Editor, message what the method printed on the message    *)
(* line, disk what the path holds; err is set when the method returns Err  *)
(* and panic when it panics, and the fields are then those at that point.  *)
(* The terminal is taken to accept every command queued to it.             *)

\* the message line: nothing printed, or a text with its colours
NoMessage == [level |-> "None", fmt |-> "", args |-> <<>>]
Message(level, fmt, args) == [level |-> level, fmt |-> fmt, args |-> args]

\* the command texts the editor compares with
cmd_q == <<"q">>
cmd_q_bang == <<"q", "!">>
cmd_w == <<"w">>
cmd_wq == <<"w", "q">>
cmd_print == <<"p", "r", "i", "n", "t", " ">>

\* starts_with with the last char of the prefix left out of the comparison
starts_with_but_last(s, prefix) ==
    Len(s) >= Len(prefix) - 1
    /\ SubSeq(s, 1, Len(prefix) - 1) = SubSeq(prefix, 1, Len(prefix) - 1)

\* str::starts_with
starts_with(s, prefix) ==
    Len(s) >= Len(prefix) /\ SubSeq(s, 1, Len(prefix)) = prefix

\* String::pop: the String without its last char
string_pop(s) == SubSeq(s, 1, Len(s) - 1)

\* Editor::load_file, when read_to_string succeeds
load_file(entry) == split(replace_with_empty(entry.content, CR), NL)

\* Editor::create
Editor_create(text, path, size) ==
    [mode |-> "Normal", path |-> path, width |-> size.width,
     height |-> size.height, terminate |-> FALSE, text |-> text,
     col |-> str_len(text[1]), row |-> 0, changed |-> FALSE,
     command |-> <<>>]

ReturnErr(e) == [e EXCEPT !.err = TRUE]
EdPanic(e) == [e EXCEPT !.panic = TRUE]

\* self.text[self.row]
cur_text(e) == e.ed.text[e.ed.row + 1]

\* Editor::print_message, print_debug_message, print_error_message,
\* clear_message
print_message(e, fmt, args) ==
    [e EXCEPT !.message = Message("Info", fmt, args)]
print_debug_message(e, fmt, args) ==
    [e EXCEPT !.message = Message("Debug", fmt, args)]
print_error_message(e, fmt, args) ==
    [e EXCEPT !.message = Message("Error", fmt, args)]
clear_message(e) == [e EXCEPT !.message = Message("Clear", "", <<>>)]

\* Editor::change_mode
change_mode(e, mode) == [e EXCEPT !.ed.mode = mode]

\* Editor::move_up
Editor_move_up(e) ==
    IF e.ed.row > 0
    THEN LET row == e.ed.row - 1
         IN  [e EXCEPT !.ed.row = row,
                       !.ed.col = Min(e.ed.col, str_len(e.ed.text[row + 1]))]
    ELSE e

\* Editor::move_down; height - 3 overflows on a terminal of fewer than
\* three rows: a panic with overflow checks
Editor_move_down(e) ==
    IF e.ed.height < 3 THEN EdPanic(e)
    ELSE IF e.ed.row < e.ed.height - 3 /\ e.ed.row < Len(e.ed.text) - 1
    THEN LET row == e.ed.row + 1
         IN  [e EXCEPT !.ed.row = row,
                       !.ed.col = Min(e.ed.col, str_len(e.ed.text[row + 1]))]
    ELSE e

\* Editor::move_left
Editor_move_left(e) ==
    IF e.ed.col > 0 THEN [e EXCEPT !.ed.col = e.ed.col - 1] ELSE e

\* Editor::move_right
Editor_move_right(e) ==
    IF e.ed.width < 1 THEN EdPanic(e)
    ELSE IF e.ed.col < e.ed.width - 1 /\ e.ed.col < str_len(cur_text(e))
    THEN [e EXCEPT !.ed.col = e.ed.col + 1]
    ELSE e

\* Editor::save_file
save_file(e, io) ==
    IF e.ed.path # NoPath
    THEN LET w == write_file(e.disk, e.ed.text, io)
         IN  IF w.ok
             THEN [print_message([e EXCEPT !.disk = w.entry],
                                 "\"{}\" {}L written",
                                 <<e.ed.path, Len(e.ed.text)>>)
                     EXCEPT !.ed.changed = FALSE]
             ELSE ReturnErr([e EXCEPT !.disk = w.entry])
    ELSE ReturnErr(e)

\* execute_command, the command q, with the buffer taken as saved
command_q_unsaved(e) == [e EXCEPT !.ed.terminate = TRUE]

\* execute_command, the command q
command_q(e) ==
    IF e.ed.changed
    THEN print_error_message(e, "No write since last change", <<>>)
    ELSE [e EXCEPT !.ed.terminate = TRUE]

\* execute_command, the command w, with the text taken as written where
\* there is no file to write
command_w_no_file(e, io) ==
    IF e.ed.path # NoPath
    THEN save_file(e, io)
    ELSE [print_error_message(e, "No opened file, can't write", <<>>)
             EXCEPT !.ed.changed = FALSE]

\* execute_command, the command w
command_w(e, io) ==
    IF e.ed.path # NoPath
    THEN save_file(e, io)
    ELSE print_error_message(e, "No opened file, can't write", <<>>)

\* execute_command, the command wq, with terminate set whatever save_file
\* returns
command_wq_unchecked(e, io) ==
    IF e.ed.path # NoPath
    THEN [save_file(e, io) EXCEPT !.ed.terminate = TRUE]
    ELSE print_error_message(e, "No opened file, can't write", <<>>)

\* execute_command, the command wq: the Err of save_file is returned
\* before terminate is set
command_wq(e, io) ==
    IF e.ed.path # NoPath
    THEN LET r == save_file(e, io)
         IN  IF r.err THEN r ELSE [r EXCEPT !.ed.terminate = TRUE]
    ELSE print_error_message(e, "No opened file, can't write", <<>>)

\* Editor::execute_command
execute_command(e, io) ==
    LET command == e.ed.command
    IN  IF starts_with(command, cmd_print)
        THEN print_message(e, "{}",
                           <<SubSeq(command, Len(cmd_print) + 1, Len(command))>>)
        ELSE IF command = cmd_q THEN command_q(e)
        ELSE IF command = cmd_q_bang THEN [e EXCEPT !.ed.terminate = TRUE]
        ELSE IF command = cmd_w THEN command_w(e, io)
        ELSE IF command = cmd_wq THEN command_wq(e, io)
        ELSE print_error_message(e, "Not an editor command: {}", <<command>>)

\* KeyEvent with its kind, as event::read gives it
KeyEventOf(code, modifiers, kind) ==
    [code |-> code, modifiers |-> modifiers, kind |-> kind]
KeyPress(code, modifiers) == KeyEventOf(code, modifiers, "Press")

\* handle_keypress_normal with a key of its own that quits: Ctrl-q sets
\* terminate
handle_keypress_normal_ctrl_q(e, event, io) ==
    IF event.code = Code("Up") THEN Editor_move_up(e)
    ELSE IF event.code = Code("Down") THEN Editor_move_down(e)
    ELSE IF event.code = Code("Left") THEN Editor_move_left(e)
    ELSE IF event.code = Code("Right") THEN Editor_move_right(e)
    ELSE IF event.code = Char(":") THEN change_mode(e, "Command")
    ELSE IF event.code.kind = "Char"
    THEN IF CONTROL \subseteq event.modifiers
         THEN IF event.code.c = "s" /\ e.ed.path # NoPath
              THEN save_file(e, io)
              ELSE IF event.code.c = "q"
              THEN [e EXCEPT !.ed.terminate = TRUE]
              ELSE e
         ELSE IF event.code.c = "i" THEN change_mode(e, "Insert") ELSE e
    ELSE e

\* Editor::handle_keypress_normal
handle_keypress_normal(e, event, io) ==
    IF event.code = Code("Up") THEN Editor_move_up(e)
    ELSE IF event.code = Code("Down") THEN Editor_move_down(e)
    ELSE IF event.code = Code("Left") THEN Editor_move_left(e)
    ELSE IF event.code = Code("Right") THEN Editor_move_right(e)
    ELSE IF event.code = Char(":") THEN change_mode(e, "Command")
    ELSE IF event.code.kind = "Char"
    THEN IF CONTROL \subseteq event.modifiers
         THEN IF event.code.c = "s" /\ e.ed.path # NoPath
              THEN save_file(e, io)
              ELSE e
         ELSE IF event.code.c = "i" THEN change_mode(e, "Insert") ELSE e
    ELSE e

\* KeyCode::Backspace of handle_keypress_insert. String::remove panics at
\* an index that is not the start of a char; width - len overflows when
\* the line above is longer than the terminal is wide, and height - 2 on a
\* terminal of one row: panics with overflow checks.
insert_backspace(e) ==
    IF e.ed.col > 0
    THEN IF e.ed.col = str_len(cur_text(e))
         THEN [e EXCEPT !.ed.text[e.ed.row + 1] = string_pop(cur_text(e)),
                        !.ed.col = e.ed.col - 1,
                        !.ed.changed = TRUE]
         ELSE LET col == e.ed.col - 1
              IN  IF col < str_len(cur_text(e))
                     /\ is_char_boundary(cur_text(e), col)
                  THEN [e EXCEPT !.ed.text[e.ed.row + 1] =
                                     string_remove(cur_text(e), col),
                                 !.ed.col = col,
                                 !.ed.changed = TRUE]
                  ELSE EdPanic([e EXCEPT !.ed.col = col])
    ELSE IF e.ed.row > 0
    THEN LET old_line == cur_text(e)
             text == vec_remove(e.ed.text, e.ed.row)
             row == e.ed.row - 1
             col == str_len(text[row + 1])
             moved == [e EXCEPT !.ed.text = text, !.ed.row = row,
                                !.ed.col = col]
         IN  IF e.ed.width < col
             THEN EdPanic(moved)
             ELSE LET joined == [moved EXCEPT !.ed.text[row + 1] =
                                                  text[row + 1] \o old_line]
                  IN  IF e.ed.height < 2 THEN EdPanic(joined)
                      ELSE [joined EXCEPT !.ed.changed = TRUE]
    ELSE e

\* KeyCode::Enter of handle_keypress_insert. String::split_off panics at an
\* index that is not a char boundary.
insert_enter(e) ==
    IF e.ed.height < 2 THEN EdPanic(e)
    ELSE IF Len(e.ed.text) < e.ed.height - 2
    THEN IF e.ed.col = str_len(cur_text(e))
         THEN [e EXCEPT !.ed.text = vec_insert(e.ed.text, e.ed.row + 1, <<>>),
                        !.ed.row = e.ed.row + 1,
                        !.ed.col = 0,
                        !.ed.changed = TRUE]
         ELSE IF is_char_boundary(cur_text(e), e.ed.col)
         THEN LET halves == string_split_off(cur_text(e), e.ed.col)
                  kept == [e.ed.text EXCEPT ![e.ed.row + 1] = halves[1]]
              IN  [e EXCEPT !.ed.text =
                                vec_insert(kept, e.ed.row + 1, halves[2]),
                            !.ed.row = e.ed.row + 1,
                            !.ed.col = 0,
                            !.ed.changed = TRUE]
         ELSE EdPanic(e)
    ELSE e

\* KeyCode::Char(c) of handle_keypress_insert without CONTROL.
\* String::insert panics at an index that is not a char boundary.
insert_typed(e, c) ==
    IF e.ed.col < e.ed.width
    THEN IF e.ed.col = str_len(cur_text(e))
         THEN [e EXCEPT !.ed.text[e.ed.row + 1] = Append(cur_text(e), c),
                        !.ed.col = e.ed.col + 1,
                        !.ed.changed = TRUE]
         ELSE IF is_char_boundary(cur_text(e), e.ed.col)
         THEN [e EXCEPT !.ed.text[e.ed.row + 1] =
                            string_insert(cur_text(e), e.ed.col, c),
                        !.ed.col = e.ed.col + 1,
                        !.ed.changed = TRUE]
         ELSE EdPanic(e)
    ELSE e

\* Editor::handle_keypress_insert
handle_keypress_insert(e, event) ==
    IF event.code = Code("Esc") THEN change_mode(e, "Normal")
    ELSE IF event.code = Code("Backspace") THEN insert_backspace(e)
    ELSE IF event.code = Code("Enter") THEN insert_enter(e)
    ELSE IF event.code = Code("Up") THEN Editor_move_up(e)
    ELSE IF event.code = Code("Down") THEN Editor_move_down(e)
    ELSE IF event.code = Code("Left") THEN Editor_move_left(e)
    ELSE IF event.code = Code("Right") THEN Editor_move_right(e)
    ELSE IF event.code.kind = "Char"
    THEN IF CONTROL \subseteq event.modifiers
         THEN IF event.code.c = "c" THEN change_mode(e, "Normal") ELSE e
         ELSE insert_typed(e, event.code.c)
    ELSE e

\* KeyCode::Enter of handle_keypress_command: an Err of execute_command is
\* returned before the command is cleared
command_enter(e, io) ==
    LET r == execute_command(change_mode(e, "Normal"), io)
    IN  IF r.err THEN r ELSE [r EXCEPT !.ed.command = <<>>]

\* handle_keypress_command whose Backspace on an empty command line leaves
\* Command mode for Insert mode
handle_keypress_command_to_insert(e, event, io) ==
    IF event.code = Code("Esc")
    THEN change_mode(clear_message([e EXCEPT !.ed.command = <<>>]), "Normal")
    ELSE IF event.code = Code("Backspace")
    THEN IF Len(e.ed.command) > 0
         THEN [e EXCEPT !.ed.command = string_pop(e.ed.command)]
         ELSE change_mode(e, "Insert")
    ELSE IF event.code = Code("Enter") THEN command_enter(e, io)
    ELSE IF event.code.kind = "Char"
    THEN IF CONTROL \subseteq event.modifiers
         THEN IF event.code.c = "c"
              THEN change_mode(clear_message([e EXCEPT !.ed.command = <<>>]),
                               "Normal")
              ELSE e
         ELSE [e EXCEPT !.ed.command = Append(e.ed.command, event.code.c)]
    ELSE e

\* Editor::handle_keypress_command
handle_keypress_command(e, event, io) ==
    IF event.code = Code("Esc")
    THEN change_mode(clear_message([e EXCEPT !.ed.command = <<>>]), "Normal")
    ELSE IF event.code = Code("Backspace")
    THEN IF Len(e.ed.command) > 0
         THEN [e EXCEPT !.ed.command = string_pop(e.ed.command)]
         ELSE change_mode(e, "Normal")
    ELSE IF event.code = Code("Enter") THEN command_enter(e, io)
    ELSE IF event.code.kind = "Char"
    THEN IF CONTROL \subseteq event.modifiers
         THEN IF event.code.c = "c"
              THEN change_mode(clear_message([e EXCEPT !.ed.command = <<>>]),
                               "Normal")
              ELSE e
         ELSE [e EXCEPT !.ed.command = Append(e.ed.command, event.code.c)]
    ELSE e

\* Editor::handle_key
handle_key(e, event, io) ==
    IF event.kind = "Press"
    THEN IF e.ed.mode = "Normal" THEN handle_keypress_normal(e, event, io)
         ELSE IF e.ed.mode = "Insert" THEN handle_keypress_insert(e, event)
         ELSE handle_keypress_command(e, event, io)
    ELSE e

----------------------------------------------------------------------------
(* The window as a state machine: a Window is created over a new or a      *)
(* loaded buffer, and its public operations are then called in any order   *)
(* until one panics.                                                       *)

Win == [buffer |-> buffer, scroll |-> scroll, cursor |-> cursor,
        bounds |-> bounds, panic |-> FALSE]

\* the bounds a terminal of at least one cell gives
BoundsSet == [width : 1..MaxWidth, height : 1..MaxHeight]

NoBounds == [width |-> 0, height |-> 0]

Op(name, c, bnds) == [op |-> name, c |-> c, bounds |-> bnds]

InitWindow ==
    /\ \E bnds \in BoundsSet :
       \E b \in {Buffer_new}
                \cup {new_from_file(p, e) : p \in Paths, e \in FsEntries} :
           LET w == Window_new(b, bnds)
           IN  /\ buffer = w.buffer
               /\ scroll = w.scroll
               /\ cursor = w.cursor
               /\ bounds = w.bounds
               /\ pre = w
    /\ fault = FALSE
    /\ last = Op("new", "", NoBounds)

\* One call: the window becomes r, and the call and the window before it
\* are recorded.
Call(op, r) ==
    /\ ~fault
    /\ buffer' = r.buffer
    /\ scroll' = r.scroll
    /\ cursor' = r.cursor
    /\ bounds' = r.bounds
    /\ fault' = r.panic
    /\ last' = op
    /\ pre' = Win
    /\ UNCHANGED <<keyvars, filevars, edvars>>

SetBounds ==
    \E bnds \in BoundsSet : Call(Op("set_bounds", "", bnds), set_bounds(Win, bnds))

MoveUp == Call(Op("move_up", "", NoBounds), move_up(Win))

MoveDown == Call(Op("move_down", "", NoBounds), move_down(Win))

MoveLeft == Call(Op("move_left", "", NoBounds), move_left(Win))

MoveRight == Call(Op("move_right", "", NoBounds), move_right(Win))

MoveToStartOfLine ==
    Call(Op("move_to_start_of_line", "", NoBounds), move_to_start_of_line(Win))

MoveToFirstCharInLine ==
    Call(Op("move_to_first_char_in_line", "", NoBounds),
         move_to_first_char_in_line(Win))

MoveToEndOfLine ==
    Call(Op("move_to_end_of_line", "", NoBounds), move_to_end_of_line(Win))

InsertChar ==
    \E c \in TextChars \cup {NL} :
        /\ c = NL => Len(buffer.lines) < MaxLines
        /\ c # NL => total_chars(buffer.lines) < MaxChars
        /\ Call(Op("insert_char", c, NoBounds), insert_char(Win, c))

RemoveChar == Call(Op("remove_char", "", NoBounds), remove_char(Win))

DeleteChar == Call(Op("delete_char", "", NoBounds), delete_char(Win))

\* the event before any key is resolved
NoEvent == KeyEvent(Code("None"), KeyModifiers_empty)

\* the window alone: no KeyMap is built and no key is resolved
InitKeysIdle ==
    /\ mappings = HashMap_new
    /\ kmode = "Normal"
    /\ kevent = NoEvent
    /\ kresult = None

\* what holds the place of a file where no file is looked at
NoEntry == [kind |-> "missing", content |-> <<>>]

\* no buffer is saved or loaded again
InitFileIdle ==
    /\ disk = NoEntry
    /\ saved = <<>>
    /\ note = "none"

\* no Editor is built and none runs
InitEditorIdle ==
    /\ editor = [mode |-> "Normal"]
    /\ message = NoMessage
    /\ run = "idle"
    /\ elast = "none"
    /\ quit = None

Init == InitWindow /\ InitKeysIdle /\ InitFileIdle /\ InitEditorIdle

Next ==
    \/ SetBounds
    \/ MoveUp
    \/ MoveDown
    \/ MoveLeft
    \/ MoveRight
    \/ MoveToStartOfLine
    \/ MoveToFirstCharInLine
    \/ MoveToEndOfLine
    \/ InsertChar
    \/ RemoveChar
    \/ DeleteChar

Spec == Init /\ [][Next]_vars

----------------------------------------------------------------------------
(* Key resolution as a state machine: KeyMap::handle is called with any    *)
(* mode and any key event, on the default table or on the default table    *)
(* with further mappings inserted, among them mappings for typed chars in  *)
(* Insert and Command mode and mappings with and without modifiers for the *)
(* same key.                                                               *)

ExtraEntries == {
    <<Key_unmodified("Insert", Char("z")), <<Action("MoveUp")>> >>,
    <<Key_any("Command", Char("z")), <<Action("MoveDown")>> >>,
    <<Key_unmodified("Normal", Char("^")), <<Action("MoveToStartOfLine")>> >>
}

RECURSIVE insert_set(_, _)
insert_set(m, entries) ==
    IF entries = {} THEN m
    ELSE LET e == CHOOSE e \in entries : TRUE
         IN  insert_set(hash_insert(m, e[1], e[2]), entries \ {e})

InitKeys ==
    /\ \E extra \in SUBSET ExtraEntries :
           mappings = insert_set(KeyMap_default, extra)
    /\ kmode = "Normal"
    /\ kevent = NoEvent
    /\ kresult = None
    /\ LET w == Window_new(Buffer_new, [width |-> 1, height |-> 1])
       IN  /\ buffer = w.buffer
           /\ scroll = w.scroll
           /\ cursor = w.cursor
           /\ bounds = w.bounds
           /\ pre = w
    /\ fault = FALSE
    /\ last = Op("new", "", NoBounds)
    /\ InitFileIdle
    /\ InitEditorIdle

Handle ==
    \E mode \in Modes, code \in KeyCodes, modifiers \in ModifierSets :
        /\ kmode' = mode
        /\ kevent' = KeyEvent(code, modifiers)
        /\ kresult' = handle(mappings, mode, KeyEvent(code, modifiers))
        /\ UNCHANGED <<mappings, winvars, filevars, edvars>>

NextKeys == Handle

SpecKeys == InitKeys /\ [][NextKeys]_vars

----------------------------------------------------------------------------
(* The editor as a state machine: an Editor is created without a file or   *)
(* over a file it could read, and Editor::run reads the events of the      *)
(* terminal one after the other until it returns. The terminal is at least *)
(* three rows high and as wide as the longest line, so that the            *)
(* differences the drawing code takes do not overflow.                     *)

\* the char typed into the text
EdTextChars == {"a"}

\* the sizes of the terminal: four rows leave two rows to the text, three
\* rows one
TermSizes ==
    {[width |-> MaxTextLen, height |-> 4],
     [width |-> MaxTextLen + 1, height |-> 3]}

\* the files Editor::new_with_file reads
EdFsEntries ==
    {[kind |-> "file", content |-> c] :
        c \in UNION {[1..n -> EdTextChars \cup {NL, CR}] : n \in 0..MaxTextLen}}

\* the texts typed on the command line, each char by char
TypedCommands == {
    cmd_q, cmd_q_bang, cmd_w, cmd_wq,
    <<"q", " ">>, <<"w", "q", "!">>,
    <<"p", "r", "i", "n", "t">>, cmd_print \o <<"q">>
}

is_prefix(p, t) == Len(p) <= Len(t) /\ SubSeq(t, 1, Len(p)) = p

\* the keys pressed: every key without modifiers, the chars the editor
\* looks for with CONTROL and one it does not look for, and one key released
EdKeyCodes ==
    {Char(c) : c \in {":", "i", "s", "c", "a", "q", "w", "!", " ",
                      "p", "r", "n", "t"}}
    \cup {Code(k) : k \in {"Esc", "Enter", "Backspace", "Delete", "Up", "Down",
                           "Left", "Right"}}
EdKeyEvents ==
    {KeyPress(code, KeyModifiers_empty) : code \in EdKeyCodes}
    \cup {KeyPress(Char(c), CONTROL) : c \in {"s", "c", "q"}}
    \cup {KeyEventOf(Code("Enter"), KeyModifiers_empty, "Release")}

\* a typed char keeps the text and the command line within what the model
\* types
Typed(event) ==
    (event.kind = "Press" /\ event.code.kind = "Char"
     /\ ~(CONTROL \subseteq event.modifiers))
    => /\ editor.mode = "Insert"
          => /\ event.code.c \in EdTextChars
             /\ total_chars(editor.text) < MaxTextLen
       /\ editor.mode = "Command"
          => \E t \in TypedCommands :
                 is_prefix(Append(editor.command, event.code.c), t)

\* the editor at the start of a handler
AtWork == [ed |-> editor, message |-> NoMessage, disk |-> disk,
           err |-> FALSE, panic |-> FALSE]

\* the event read last: its kind, the command it executed, and how the
\* file system answered its handler
EdEvent(kind, executed, io) ==
    [kind |-> kind, executed |-> executed, io |-> io]

\* the command a key executes: Enter pressed in Command mode
Executed(event) ==
    IF event.kind = "Press" /\ editor.mode = "Command"
       /\ event.code = Code("Enter")
    THEN Some(editor.command) ELSE None

\* the command that has set terminate once the handler of the key event has
\* left the editor ed: the command the event executes where that sets the
\* flag, else the command that had set it before
QuitBy(ed, event) ==
    IF ~editor.terminate /\ ed.terminate THEN Executed(event) ELSE quit

InitEditor ==
    /\ \E size \in TermSizes :
           \/ /\ editor = Editor_create(<< <<>> >>, NoPath, size)
              /\ disk = NoEntry
           \/ \E p \in Paths, entry \in EdFsEntries :
                  /\ editor = Editor_create(load_file(entry), p, size)
                  /\ disk = entry
    /\ message = NoMessage
    /\ run = "loop"
    /\ elast = EdEvent("None", None, IoOk)
    /\ quit = None
    /\ saved = <<>>
    /\ note = "none"
    /\ InitKeysIdle
    /\ LET w == Window_new(Buffer_new, [width |-> 1, height |-> 1])
       IN  /\ buffer = w.buffer
           /\ scroll = w.scroll
           /\ cursor = w.cursor
           /\ bounds = w.bounds
           /\ pre = w
    /\ fault = FALSE
    /\ last = Op("new", "", NoBounds)

\* how the file system may answer the handler of an event: it is asked
\* only where the handler comes to save_file with a path
Answers(event) ==
    IF handle_key(AtWork, event, IoCreateFails).err
    THEN IoOutcomes(editor.text) ELSE {IoOk}

\* Event::Key with the key event and the answer of the file system: the
\* Err of handle_key is returned by run
Key(event, io) ==
    /\ run = "loop"
    /\ Typed(event)
    /\ LET r == handle_key(AtWork, event, io)
       IN  /\ editor' = r.ed
           /\ message' = r.message
           /\ disk' = r.disk
           /\ run' = IF r.panic THEN "panicked"
                     ELSE IF r.err THEN "returned Err" ELSE "loop"
    /\ elast' = EdEvent("Key", Executed(event), io)
    /\ UNCHANGED <<winvars, keyvars, saved, note>>

\* Event::Key
ReadKey ==
    \E event \in EdKeyEvents : \E io \in Answers(event) :
        Key(event, io) /\ UNCHANGED quit

\* Event::Resize
ReadResize ==
    \E size \in TermSizes :
        /\ run = "loop"
        /\ LET r == print_debug_message(
                        [AtWork EXCEPT !.ed.width = size.width,
                                       !.ed.height = size.height],
                        "Resized: {}x{}", <<size.width, size.height>>)
           IN  /\ editor' = r.ed
               /\ message' = r.message
        /\ elast' = EdEvent("Resize", None, IoOk)
        /\ UNCHANGED <<winvars, keyvars, filevars, run, quit>>

\* any other event
ReadOther ==
    /\ run = "loop"
    /\ message' = print_debug_message(AtWork, "unhandled event: {:?}",
                                      <<>>).message
    /\ elast' = EdEvent("Other", None, IoOk)
    /\ UNCHANGED <<winvars, keyvars, filevars, run, editor, quit>>

\* no event is left to read and terminate is set: the loop ends and run
\* returns Ok
Return ==
    /\ run = "loop"
    /\ editor.terminate
    /\ run' = "returned Ok"
    /\ UNCHANGED <<winvars, keyvars, filevars, editor, message, elast, quit>>

NextEditor == ReadKey \/ ReadResize \/ ReadOther \/ Return

SpecEditor == InitEditor /\ [][NextEditor]_vars

\* The run loop with the command that sets terminate kept on record

\* Event::Key, and the command that has set terminate
ReadKeyQuit ==
    \E event \in EdKeyEvents : \E io \in Answers(event) :
        /\ Key(event, io)
        /\ quit' = QuitBy(handle_key(AtWork, event, io).ed, event)

NextQuit == ReadKeyQuit \/ ReadResize \/ ReadOther \/ Return

SpecQuit == InitEditor /\ [][NextQuit]_vars

----------------------------------------------------------------------------
(* The buffer and its file as a state machine: a path is opened in a       *)
(* window, the buffer is edited through the window, saved with             *)
(* Buffer::save and opened again with Buffer::new_from_file, in any order, *)
(* up to the first write_all that fails.                                   *)

\* the chars typed into the lines: a char of two bytes and a carriage
\* return, which new_from_file takes out of what it reads
SaveChars == {"é", CR}

\* what is at the path when it is first opened
SaveFsEntries ==
    {[kind |-> "missing", content |-> <<>>], [kind |-> "dir", content |-> <<>>]}
    \cup {[kind |-> "file", content |-> c] :
            c \in UNION {[1..n -> SaveChars \cup {NL}] : n \in 0..MaxSaveChars}}

\* the last call of the buffer's file operations with its result, or an
\* edit after them; for a path opened again, the call before it
Note(op, io, result) ==
    [op |-> op, io |-> io, result |-> result, after |-> ""]

FileBounds == [width |-> MaxWidth, height |-> MaxHeight]

InitFile ==
    /\ \E p \in Paths, entry \in SaveFsEntries :
           LET w == Window_new(new_from_file(p, entry), FileBounds)
           IN  /\ buffer = w.buffer
               /\ scroll = w.scroll
               /\ cursor = w.cursor
               /\ bounds = w.bounds
               /\ pre = w
               /\ disk = entry
               /\ saved = w.buffer.lines
    /\ note = Note("new_from_file", IoOk, Ok("Buffer"))
    /\ fault = FALSE
    /\ last = Op("new", "", NoBounds)
    /\ InitKeysIdle
    /\ InitEditorIdle

\* no call has panicked and no write_all has failed
InSession == ~fault /\ note.io.fails # "write"

\* One call of the window that edits or moves: the window becomes r
Edit(r) ==
    /\ InSession
    /\ buffer' = r.buffer
    /\ scroll' = r.scroll
    /\ cursor' = r.cursor
    /\ bounds' = r.bounds
    /\ fault' = r.panic
    /\ note' = Note("edit", IoOk, Ok("()"))
    /\ UNCHANGED <<last, pre, disk, saved, keyvars, edvars>>

FileInsertChar ==
    \E c \in SaveChars \cup {NL} :
        /\ c = NL => Len(buffer.lines) < MaxSaveLines
        /\ c # NL => total_chars(buffer.lines) < MaxSaveChars
        /\ Edit(insert_char(Win, c))

FileRemoveChar == Edit(remove_char(Win))

FileDeleteChar == Edit(delete_char(Win))

FileMove ==
    \E r \in {move_up(Win), move_down(Win), move_left(Win), move_right(Win)} :
        Edit(r)

\* Buffer::save on the buffer of the window
Save ==
    \E io \in IF buffer.path = NoPath THEN {IoOk} ELSE IoOutcomes(buffer.lines) :
        LET r == save(buffer, disk, io)
        IN  /\ InSession
            /\ buffer' = r.buffer
            /\ disk' = r.disk
            /\ saved' = IF r.result.ok /\ buffer.path # NoPath
                        THEN buffer.lines ELSE saved
            /\ note' = Note("save", io, r.result)
            /\ UNCHANGED <<scroll, cursor, bounds, fault, last, pre,
                           keyvars, edvars>>

\* The path of the buffer is opened again: Buffer::new_from_file and
\* Window::new
Load ==
    /\ InSession
    /\ buffer.path # NoPath
    /\ LET w == Window_new(new_from_file(buffer.path, disk), bounds)
       IN  /\ buffer' = w.buffer
           /\ scroll' = w.scroll
           /\ cursor' = w.cursor
           /\ saved' = w.buffer.lines
    /\ note' = [Note("new_from_file", IoOk, Ok("Buffer"))
                   EXCEPT !.after = note.op]
    /\ UNCHANGED <<bounds, fault, last, pre, disk, keyvars, edvars>>

NextFile ==
    \/ FileInsertChar
    \/ FileRemoveChar
    \/ FileDeleteChar
    \/ FileMove
    \/ Save
    \/ Load

SpecFile == InitFile /\ [][NextFile]_vars

----------------------------------------------------------------------------
(* Properties of the window *)

lines == buffer.lines
pre_lines == pre.buffer.lines
\* the line the cursor was on before the last operation, and the same row now
pre_line == pre.buffer.lines[pre.cursor.y + 1]
same_row == buffer.lines[pre.cursor.y + 1]

MotionOps == {"move_up", "move_down", "move_left", "move_right",
              "move_to_start_of_line", "move_to_end_of_line",
              "move_to_first_char_in_line"}
EditOps == {"insert_char", "remove_char", "delete_char"}

\* the lines other than row y (0-based) are those of before
OtherLinesKept(y) ==
    /\ Len(lines) = Len(pre_lines)
    /\ \A i \in 1..Len(lines) : i # y + 1 => lines[i] = pre_lines[i]

\* C1: in every state reached from a new Window by motions, edits and
\* set_bounds the cursor is inside the buffer: 0 <= cursor.y < len(lines)
\* and 0 <= cursor.x <= char_len(lines[cursor.y]).
C1_CursorInBuffer ==
    /\ cursor.y >= 0
    /\ cursor.y < Len(lines)
    /\ cursor.x >= 0
    /\ cursor.x <= Len(lines[cursor.y + 1])

\* C1 witness: an edit has left the cursor behind the last char of a line
\* that is not the first.
C1_Witness ==
    /\ last.op \in EditOps
    /\ cursor.y > 0
    /\ cursor.x > 0
    /\ cursor.x = Len(lines[cursor.y + 1])

\* C2: in every state reached by motions, edits and set_bounds with bounds
\* of at least one cell the cursor is visible:
\* scroll.y <= cursor.y < scroll.y + bounds.height and
\* scroll.x <= cursor.x < scroll.x + bounds.width.
C2_CursorVisible ==
    /\ scroll.y <= cursor.y
    /\ cursor.y < scroll.y + bounds.height
    /\ scroll.x <= cursor.x
    /\ cursor.x < scroll.x + bounds.width

\* C2 witness: move_left has wrapped from column 0 to the end of the line
\* above, which lies right of the old scroll, and the window has scrolled.
C2_Witness ==
    /\ last.op = "move_left"
    /\ pre.cursor.x = 0
    /\ cursor.y = pre.cursor.y - 1
    /\ scroll.x > pre.scroll.x

\* C3: the line sequence is never empty, for a buffer created empty or
\* loaded from a file and after any insert_char, remove_char, delete_char.
C3_LinesNeverEmpty == Len(lines) >= 1

\* C3 witness: remove_char or delete_char has joined the last two lines of
\* the buffer into one.
C3_Witness ==
    /\ last.op \in {"remove_char", "delete_char"}
    /\ Len(pre_lines) = 2
    /\ Len(lines) = 1

\* C4: whenever cursor.x is the length of the current line and a next line
\* exists (the last line of the buffer included), delete_char replaces line
\* cursor.y by its concatenation with line cursor.y + 1, removes line
\* cursor.y + 1, leaves the cursor unchanged and sets the dirty flag.
C4_DeleteCharJoinsNextLine ==
    (/\ last.op = "delete_char"
     /\ pre.cursor.x = Len(pre_line)
     /\ pre.cursor.y + 1 < Len(pre_lines))
    => /\ ~fault
       /\ Len(lines) = Len(pre_lines) - 1
       /\ same_row = pre_line \o pre_lines[pre.cursor.y + 2]
       /\ \A i \in 1..Len(lines) :
              /\ i < pre.cursor.y + 1 => lines[i] = pre_lines[i]
              /\ i > pre.cursor.y + 1 => lines[i] = pre_lines[i + 1]
       /\ cursor = pre.cursor
       /\ buffer.changed

C6_NewlineSplits ==
    (last.op = "insert_char" /\ last.c = NL)
    => /\ ~fault
       /\ Len(lines) = Len(pre_lines) + 1
       /\ same_row = SubSeq(pre_line, 1, pre.cursor.x)
       /\ lines[pre.cursor.y + 2] =
              SubSeq(pre_line, pre.cursor.x + 1, Len(pre_line))
       /\ \A i \in 1..Len(pre_lines) :
              /\ i < pre.cursor.y + 1 => lines[i] = pre_lines[i]
              /\ i > pre.cursor.y + 1 => lines[i + 1] = pre_lines[i]
       /\ cursor = Position_new(0, pre.cursor.y + 1)
       /\ buffer.changed

\* C6 witness: a line has been split between two of its chars, the first
\* of two bytes.
C6_Witness ==
    /\ last.op = "insert_char"
    /\ last.c = NL
    /\ pre.cursor.x > 0
    /\ pre.cursor.x < Len(pre_line)
    /\ pre_line[1] = "é"
    /\ ~fault

\* C7: remove_char with cursor.x = 0 and cursor.y > 0 joins the current
\* line onto the one above: line y - 1 becomes old line y - 1 followed by
\* old line y, line y is removed, the cursor moves to
\* (char_len(old line y - 1), y - 1) and dirty is set.
C7_RemoveCharJoins ==
    (last.op = "remove_char" /\ pre.cursor.x = 0 /\ pre.cursor.y > 0)
    => /\ ~fault
       /\ Len(lines) = Len(pre_lines) - 1
       /\ lines[pre.cursor.y] = pre_lines[pre.cursor.y] \o pre_line
       /\ \A i \in 1..Len(lines) :
              /\ i < pre.cursor.y => lines[i] = pre_lines[i]
              /\ i > pre.cursor.y => lines[i] = pre_lines[i + 1]
       /\ cursor = Position_new(Len(pre_lines[pre.cursor.y]), pre.cursor.y - 1)
       /\ buffer.changed

\* C7 witness: two lines that both hold chars have been joined.
C7_Witness ==
    /\ last.op = "remove_char"
    /\ pre.cursor.x = 0
    /\ pre.cursor.y > 0
    /\ pre_line # <<>>
    /\ pre_lines[pre.cursor.y] # <<>>
    /\ ~fault

\* C8: remove_char with cursor.x > 0 deletes the char at index cursor.x - 1
\* of the current line, decrements cursor.x, leaves cursor.y, the line
\* count and the other lines and sets dirty.
C8_RemoveCharDeletesBefore ==
    (last.op = "remove_char" /\ pre.cursor.x > 0)
    => /\ ~fault
       /\ OtherLinesKept(pre.cursor.y)
       /\ Len(same_row) = Len(pre_line) - 1
       /\ \A i \in 1..Len(same_row) :
              same_row[i] = pre_line[IF i < pre.cursor.x THEN i ELSE i + 1]
       /\ cursor = Position_new(pre.cursor.x - 1, pre.cursor.y)
       /\ buffer.changed

\* C8 witness: the second char of a line has been removed, behind a first
\* char of two bytes and different from it.
C8_Witness ==
    /\ last.op = "remove_char"
    /\ pre.cursor.x = 2
    /\ pre_line[1] = "é"
    /\ pre_line[2] # "é"
    /\ ~fault

\* C20: vertical motion clamps. move_up on row 0 and move_down on the last
\* row change nothing; otherwise cursor.y changes by exactly one and
\* cursor.x becomes the smaller of the old cursor.x and the length in chars
\* of the line moved to.
C20_VerticalMotionClamps ==
    /\ last.op = "move_up"
       => /\ ~fault
          /\ buffer = pre.buffer
          /\ IF pre.cursor.y = 0
             THEN Win = pre
             ELSE /\ cursor.y = pre.cursor.y - 1
                  /\ cursor.x = Min(pre.cursor.x, Len(lines[cursor.y + 1]))
    /\ last.op = "move_down"
       => /\ ~fault
          /\ buffer = pre.buffer
          /\ IF pre.cursor.y = Len(pre_lines) - 1
             THEN Win = pre
             ELSE /\ cursor.y = pre.cursor.y + 1
                  /\ cursor.x = Min(pre.cursor.x, Len(lines[cursor.y + 1]))

\* move_down has moved the cursor to a line shorter than its column
C20_Witness ==
    /\ last.op = "move_down"
    /\ cursor.y = pre.cursor.y + 1
    /\ pre.cursor.x > Len(lines[cursor.y + 1])
    /\ cursor.x = Len(lines[cursor.y + 1])

\* C21: horizontal motion wraps across lines. move_left at column 0 of a row
\* y > 0 puts the cursor at (char_len(lines[y-1]), y-1); move_right at the
\* end of a row that has a successor puts it at (0, y+1); move_left at
\* (0, 0) and move_right at the end of the last line change nothing; inside
\* a line each moves cursor.x by exactly one and leaves cursor.y.
C21_HorizontalMotionWraps ==
    /\ last.op = "move_left"
       => /\ ~fault
          /\ IF pre.cursor.x > 0
             THEN cursor = Position_new(pre.cursor.x - 1, pre.cursor.y)
             ELSE IF pre.cursor.y > 0
             THEN cursor = Position_new(Len(pre_lines[pre.cursor.y]),
                                        pre.cursor.y - 1)
             ELSE Win = pre
    /\ last.op = "move_right"
       => /\ ~fault
          /\ IF pre.cursor.x < Len(pre_line)
             THEN cursor = Position_new(pre.cursor.x + 1, pre.cursor.y)
             ELSE IF pre.cursor.y + 1 < Len(pre_lines)
             THEN cursor = Position_new(0, pre.cursor.y + 1)
             ELSE Win = pre

\* move_right has wrapped from the end of a line that holds chars to the
\* start of the line below
C21_Witness ==
    /\ last.op = "move_right"
    /\ pre.cursor.x = Len(pre_line)
    /\ pre.cursor.x > 0
    /\ cursor = Position_new(0, pre.cursor.y + 1)

\* the scroll on one axis after the least adjustment that shows coordinate c
\* in a window of the given size
MinimalScroll(old, c, size) ==
    IF c < old THEN c
    ELSE IF c >= old + size THEN c - size + 1
    ELSE old

RECURSIVE move_down_times(_, _)
\* move_down called n times
move_down_times(w, n) ==
    IF n = 0 THEN w ELSE move_down_times(move_down(w), n - 1)

\* a window of height 5 on a buffer of 20 lines after move_down has been
\* called 12 times from row 0
TwelveRowsDown ==
    LET b == [Buffer_new EXCEPT !.lines = [i \in 1..20 |-> <<>>]]
    IN  move_down_times(Window_new(b, [width |-> 1, height |-> 5]), 12)

\* C22: after every motion the scroll is adjusted by the least amount, on
\* each axis by itself: unchanged where the new cursor coordinate lies in
\* [old scroll, old scroll + size), the cursor coordinate where that is
\* below the old scroll, cursor - size + 1 where it is at or beyond
\* old scroll + size. With height 5 and 20 lines, moving down from row 0 to
\* row 12 ends with scroll.y = 8.
C22_MinimalScroll ==
    /\ last.op \in MotionOps
       => /\ ~fault
          /\ bounds = pre.bounds
          /\ scroll.x = MinimalScroll(pre.scroll.x, cursor.x, bounds.width)
          /\ scroll.y = MinimalScroll(pre.scroll.y, cursor.y, bounds.height)
    /\ TwelveRowsDown.cursor.y = 12
    /\ TwelveRowsDown.scroll.y = 8

\* a motion has scrolled right by more than one column
C22_Witness ==
    /\ last.op \in MotionOps
    /\ scroll.x > pre.scroll.x + 1
    /\ scroll.x = cursor.x - bounds.width + 1

\* the line holds no char other than whitespace
AllWhitespace(line) == \A i \in 1..Len(line) : is_whitespace(line[i])

\* C23: move_to_first_char_in_line on a line that holds only whitespace, or
\* nothing, places the cursor at the end of that line:
\* cursor.x = char_len(lines[cursor.y]), whatever cursor.x was before.
C23_FirstCharOfBlankLine ==
    (last.op = "move_to_first_char_in_line" /\ AllWhitespace(pre_line))
    => /\ ~fault
       /\ cursor.y = pre.cursor.y
       /\ cursor.x = Len(pre_line)

\* the char index of the leftmost char of the line that is not whitespace
FirstNonBlank(line) ==
    CHOOSE i \in 0..(Len(line) - 1) :
        /\ ~is_whitespace(line[i + 1])
        /\ \A j \in 1..i : is_whitespace(line[j])

\* the cursors move_to_first_char_in_line leaves on the line "  x", called
\* with the cursor in each of its columns
FirstCharOfTwoBlanksX ==
    LET b == [Buffer_new EXCEPT !.lines = << <<" ", " ", "x">> >>]
        w == Window_new(b, [width |-> 4, height |-> 1])
    IN  {move_to_first_char_in_line([w EXCEPT !.cursor.x = x]).cursor :
            x \in 0..3}

\* C24: move_to_first_char_in_line on a line that holds a char other than
\* whitespace sets cursor.x to the char index of the leftmost such char,
\* whatever cursor.x was, and leaves cursor.y and the buffer; on the line
\* "  x" it gives cursor.x = 2 from every column.
C24_FirstCharInLine ==
    /\ (last.op = "move_to_first_char_in_line" /\ ~AllWhitespace(pre_line))
       => /\ ~fault
          /\ cursor.x = FirstNonBlank(pre_line)
          /\ cursor.y = pre.cursor.y
          /\ buffer = pre.buffer
    /\ FirstCharOfTwoBlanksX = {Position_new(2, 0)}

\* the cursor has been moved right, over whitespace, to the first char of
\* the line that is none
C24_Witness ==
    /\ last.op = "move_to_first_char_in_line"
    /\ ~AllWhitespace(pre_line)
    /\ is_whitespace(pre_line[1])
    /\ cursor.x > pre.cursor.x
    /\ ~is_whitespace(pre_line[cursor.x + 1])

\* C25: set_bounds never moves the cursor and never changes the buffer. It
\* replaces bounds and changes scroll only on an axis where the cursor
\* would fall outside the new size, so after a resize to a width and a
\* height of at least 1 the cursor is still inside the visible area.
C25_SetBoundsFrame ==
    last.op = "set_bounds"
    => /\ ~fault
       /\ cursor = pre.cursor
       /\ buffer = pre.buffer
       /\ bounds = last.bounds
       /\ pre.cursor.x < pre.scroll.x + bounds.width => scroll.x = pre.scroll.x
       /\ pre.cursor.y < pre.scroll.y + bounds.height => scroll.y = pre.scroll.y
       /\ scroll.x <= cursor.x
       /\ cursor.x < scroll.x + bounds.width
       /\ scroll.y <= cursor.y
       /\ cursor.y < scroll.y + bounds.height

\* the window has been made smaller on both axes and has scrolled on both
C25_Witness ==
    /\ last.op = "set_bounds"
    /\ bounds.width < pre.bounds.width
    /\ bounds.height < pre.bounds.height
    /\ scroll.x > pre.scroll.x
    /\ scroll.y > pre.scroll.y

\* C27: remove_char with the cursor at the start of the buffer, row 0 and
\* column 0, does nothing: lines, cursor, scroll and the dirty flag are as
\* before, so a clean buffer stays clean.
C27_RemoveCharAtStart ==
    (last.op = "remove_char" /\ pre.cursor = Position_new(0, 0))
    => /\ ~fault
       /\ lines = pre_lines
       /\ cursor = pre.cursor
       /\ scroll = pre.scroll
       /\ buffer.changed = pre.buffer.changed
       /\ Win = pre

\* remove_char was called at the start of a clean buffer of two lines, the
\* first of which holds chars
C27_Witness ==
    /\ last.op = "remove_char"
    /\ pre.cursor = Position_new(0, 0)
    /\ Len(pre_lines) = 2
    /\ pre_line # <<>>
    /\ ~pre.buffer.changed
    /\ ~buffer.changed

\* C28: motions and set_bounds never mutate the buffer: after move_up,
\* move_down, move_left, move_right, move_to_start_of_line,
\* move_to_end_of_line, move_to_first_char_in_line and set_bounds the
\* lines, the path and the dirty flag are what they were before; only
\* insert_char, remove_char and delete_char change lines.
C28_MotionsKeepBuffer ==
    /\ last.op \in MotionOps \cup {"set_bounds"}
       => /\ ~fault
          /\ lines = pre_lines
          /\ buffer.path = pre.buffer.path
          /\ buffer.changed = pre.buffer.changed
    /\ lines # pre_lines => last.op \in EditOps

\* a motion has moved the cursor and the scroll on a clean buffer with a
\* path
C28_Witness ==
    /\ last.op \in MotionOps
    /\ cursor # pre.cursor
    /\ scroll # pre.scroll
    /\ buffer.path # NoPath
    /\ ~buffer.changed
    /\ Len(lines) = 2

\* the window after insert_char(c) and then remove_char
InsertedThenRemoved(c) == remove_char(insert_char(Win, c))

\* C30: insert_char followed at once by remove_char is the identity on text
\* and cursor: in every reachable state and for every char c, newline
\* included, the two calls give back the lines and the cursor position of
\* before; the dirty flag is left true and the scroll may differ.
C30_InsertRemoveIdentity ==
    ~fault
    => \A c \in TextChars \cup {NL} :
           LET r == InsertedThenRemoved(c)
           IN  /\ ~insert_char(Win, c).panic
               /\ ~r.panic
               /\ r.buffer = [buffer EXCEPT !.changed = TRUE]
               /\ r.cursor = cursor

\* behind a char of two bytes on a clean buffer, a newline inserted and
\* removed again gives back the lines and the cursor and leaves another
\* scroll and the dirty flag set
C30_Witness ==
    /\ ~fault
    /\ ~buffer.changed
    /\ cursor.x > 0
    /\ lines[cursor.y + 1][1] = "é"
    /\ InsertedThenRemoved(NL).scroll # scroll
    /\ InsertedThenRemoved(NL).cursor = cursor
    /\ InsertedThenRemoved(NL).buffer.lines = lines

\* C31: delete_char with the cursor at the end of the last line of the
\* buffer, where no next line exists, also in a buffer of one line or an
\* empty one, ends without a fault (no arithmetic underflow, no index out
\* of range) and does nothing: lines, cursor, scroll and the dirty flag are
\* as before.
C31_DeleteCharAtEnd ==
    (/\ last.op = "delete_char"
     /\ pre.cursor.y = Len(pre_lines) - 1
     /\ pre.cursor.x = Len(pre_line))
    => /\ ~fault
       /\ lines = pre_lines
       /\ cursor = pre.cursor
       /\ scroll = pre.scroll
       /\ buffer.changed = pre.buffer.changed

----------------------------------------------------------------------------
(* Properties of key resolution *)

Handled == kevent # NoEvent

\* the pass-through rule applies to the resolved event
PassThrough ==
    /\ kevent.code.kind = "Char"
    /\ kevent.modifiers \in {{}, {"SHIFT"}}
    /\ kmode \in {"Insert", "Command"}

ExactKey == [mode |-> kmode, key |-> kevent.code,
             modifiers |-> [kind |-> "Match", m |-> kevent.modifiers]]
AnyKey == [mode |-> kmode, key |-> kevent.code,
           modifiers |-> [kind |-> "Any", m |-> {}]]

\* C9: for a literal char c and modifiers empty or exactly SHIFT, resolving
\* in Insert mode returns [InsertChar(c)] and in Command mode
\* [InsertCharCommand(c)], whatever the table holds for the key; in Normal
\* mode and with any other modifier no such action is made up: a key the
\* table does not hold resolves to nothing.
C9_PassThrough ==
    Handled =>
        /\ (PassThrough /\ kmode = "Insert")
               => kresult = {<<[act |-> "InsertChar", arg |-> kevent.code.c]>>}
        /\ (PassThrough /\ kmode = "Command")
               => kresult =
                      {<<[act |-> "InsertCharCommand", arg |-> kevent.code.c]>>}
        /\ (/\ ~PassThrough
            /\ ExactKey \notin DOMAIN mappings
            /\ AnyKey \notin DOMAIN mappings)
               => kresult = {}

\* C9 witness: a typed char has been passed through in Insert mode although
\* the table holds another action for that very key and modifiers.
C9_Witness ==
    /\ Handled
    /\ PassThrough
    /\ kmode = "Insert"
    /\ ExactKey \in DOMAIN mappings
    /\ kresult # {mappings[ExactKey]}
    /\ kresult # {}

\* C10: when the pass-through rule does not apply, resolution returns the
\* actions of the entry for (mode, key, exactly the event's modifiers) if
\* there is one, else those of the entry for (mode, key, any modifiers) if
\* there is one, else nothing; an exact entry wins over an any entry.
C10_TableLookup ==
    (Handled /\ ~PassThrough) =>
        /\ ExactKey \in DOMAIN mappings => kresult = {mappings[ExactKey]}
        /\ (ExactKey \notin DOMAIN mappings /\ AnyKey \in DOMAIN mappings)
               => kresult = {mappings[AnyKey]}
        /\ (ExactKey \notin DOMAIN mappings /\ AnyKey \notin DOMAIN mappings)
               => kresult = {}

\* C10 witness: a key with an exact entry and a different any entry has been
\* resolved to the exact entry.
C10_Witness ==
    /\ Handled
    /\ ~PassThrough
    /\ ExactKey \in DOMAIN mappings
    /\ AnyKey \in DOMAIN mappings
    /\ mappings[ExactKey] # mappings[AnyKey]
    /\ kresult = {mappings[ExactKey]}

\* a binding as the documentation lists it: the mode, the key with its
\* modifiers, and the actions in their order
Binding(mode, code, modifiers, actions) ==
    [mode |-> mode, event |-> KeyEvent(code, modifiers), actions |-> actions]

\* the listed bindings; a key listed without a modifier is the key pressed
\* without one, and ^ and $ are listed for every set of modifiers
ListedBindings ==
    {Binding("Normal", Char("i"), {}, <<ChangeMode("Insert")>>),
     Binding("Normal", Char("a"), {},
             <<Action("MoveRight"), ChangeMode("Insert")>>),
     Binding("Normal", Char(":"), {}, <<ChangeMode("Command")>>),
     Binding("Normal", Code("Up"), {}, <<Action("MoveUp")>>),
     Binding("Normal", Code("Down"), {}, <<Action("MoveDown")>>),
     Binding("Normal", Code("Left"), {}, <<Action("MoveLeft")>>),
     Binding("Normal", Code("Right"), {}, <<Action("MoveRight")>>),
     Binding("Normal", Char("k"), {}, <<Action("MoveUp")>>),
     Binding("Normal", Char("j"), {}, <<Action("MoveDown")>>),
     Binding("Normal", Char("h"), {}, <<Action("MoveLeft")>>),
     Binding("Normal", Char("l"), {}, <<Action("MoveRight")>>),
     Binding("Normal", Code("Home"), {}, <<Action("MoveToStartOfLine")>>),
     Binding("Normal", Char("0"), {}, <<Action("MoveToStartOfLine")>>),
     Binding("Normal", Code("End"), {}, <<Action("MoveToEndOfLine")>>),
     Binding("Normal", Code("Delete"), {}, <<Action("DeleteChar")>>),
     Binding("Normal", Char("x"), {}, <<Action("DeleteChar")>>),
     Binding("Normal", Char("A"), {"SHIFT"},
             <<Action("MoveToEndOfLine"), ChangeMode("Insert")>>),
     Binding("Normal", Char("I"), {"SHIFT"},
             <<Action("MoveToFirstCharacterInLine"), ChangeMode("Insert")>>),
     Binding("Insert", Code("Esc"), {}, <<ChangeMode("Normal")>>),
     Binding("Insert", Char("c"), {"CONTROL"}, <<ChangeMode("Normal")>>),
     Binding("Insert", Code("Enter"), {},
             <<[act |-> "InsertChar", arg |-> NL]>>),
     Binding("Insert", Code("Backspace"), {}, <<Action("RemoveChar")>>),
     Binding("Insert", Code("Delete"), {}, <<Action("DeleteChar")>>),
     Binding("Command", Code("Esc"), {}, <<ChangeMode("Normal")>>),
     Binding("Command", Char("c"), {"CONTROL"}, <<ChangeMode("Normal")>>),
     Binding("Command", Code("Enter"), {}, <<Action("ExecuteCommand")>>),
     Binding("Command", Code("Backspace"), {},
             <<Action("RemoveCharCommand")>>)}
    \cup {Binding("Normal", Char("$"), m, <<Action("MoveToEndOfLine")>>) :
            m \in ModifierSets}
    \cup {Binding("Normal", Char("^"), m,
                  <<Action("MoveToFirstCharacterInLine")>>) :
            m \in ModifierSets}

\* the table is the default one, with no mapping inserted after it
DefaultTable == mappings = KeyMap_default

\* C29: the default key map resolves each listed binding to exactly the
\* listed actions in the listed order: in Normal mode i, a, :, the arrows
\* and h/j/k/l, Home and 0, End and $, ^, Delete and x, Shift-A, Shift-I;
\* in Insert mode Esc, Ctrl-C, Enter, Backspace, Delete; in Command mode
\* Esc, Ctrl-C, Enter, Backspace.
C29_DefaultBindings ==
    (Handled /\ DefaultTable)
    => \A b \in ListedBindings :
           (kmode = b.mode /\ kevent = b.event) => kresult = {b.actions}

\* on the default table a was resolved in Normal mode to its two actions
C29_Witness ==
    /\ Handled
    /\ DefaultTable
    /\ kmode = "Normal"
    /\ kevent = KeyEvent(Char("a"), {})
    /\ kresult = {<<Action("MoveRight"), ChangeMode("Insert")>>}

----------------------------------------------------------------------------
(* Properties of the editor *)

\* the command the last event executed, if it executed one
executed(cmd) == elast.executed = Some(cmd)

\* the step in which Enter executes the command cmd
Executes(cmd) ==
    /\ run = "loop"
    /\ editor.mode = "Command"
    /\ editor.command = cmd
    /\ elast'.executed = Some(cmd)

\* C11: the command text is non-empty only in Command mode: in every state
\* of the editor in which the mode is not Command the command text is
\* empty, also after Enter has executed the command.
C11_CommandOnlyInCommandMode ==
    editor.mode # "Command" => editor.command = <<>>

\* C12: q sets terminate if and only if the buffer is not dirty. On a dirty
\* buffer it prints the error "No write since last change" and leaves
\* terminate, the text and the dirty flag as they were, however often it
\* is repeated; run does not return an Err.
C12_QuitOnlyIfSaved ==
    [][Executes(cmd_q)
       => /\ editor'.terminate = (editor.terminate \/ ~editor.changed)
          /\ editor.changed
             => /\ message'.level = "Error"
                /\ message'.fmt = "No write since last change"
                /\ editor'.text = editor.text
                /\ editor'.changed
          /\ disk' = disk
          /\ run' = "loop"]_vars

\* q was executed on a dirty buffer of an editor that had not terminated
C12_Witness ==
    /\ run = "loop"
    /\ executed(cmd_q)
    /\ editor.changed
    /\ ~editor.terminate
    /\ message.fmt = "No write since last change"

\* C13: w on an editor with no path prints an error and is no fault: run
\* does not return, no file is written, and the text, the dirty flag and
\* terminate are as they were.
C13_WriteWithoutPath ==
    [][(Executes(cmd_w) /\ editor.path = NoPath)
       => /\ message'.level = "Error"
          /\ message'.fmt = "No opened file, can't write"
          /\ run' = "loop"
          /\ disk' = disk
          /\ editor'.text = editor.text
          /\ editor'.changed = editor.changed
          /\ editor'.terminate = editor.terminate]_vars

\* w was executed on a dirty buffer without a path
C13_Witness ==
    /\ executed(cmd_w)
    /\ editor.path = NoPath
    /\ editor.changed
    /\ ~editor.terminate
    /\ message.level = "Error"
    /\ run = "loop"

\* the file holds the lines of the text joined by newlines
Written == disk = [kind |-> "file", content |-> concat(write_calls(editor.text))]

\* C14: wq sets terminate only after a save that succeeded. With a path and
\* a save that succeeds the file holds the text, the dirty flag is cleared
\* and terminate is set; with no path an error is printed, nothing is
\* written and terminate is as it was; where the save does not complete
\* terminate is as it was.
C14_WriteQuit ==
    [][Executes(cmd_wq)
       => /\ (editor.path # NoPath /\ elast'.io = IoOk)
             => /\ Written'
                /\ ~editor'.changed
                /\ editor'.text = editor.text
                /\ editor'.terminate
                /\ run' = "loop"
          /\ editor.path = NoPath
             => /\ message'.level = "Error"
                /\ disk' = disk
                /\ editor'.changed = editor.changed
                /\ editor'.terminate = editor.terminate
          /\ editor'.terminate # editor.terminate
             => /\ editor.path # NoPath
                /\ elast'.io = IoOk
                /\ Written'
                /\ ~editor'.changed]_vars

\* wq was executed with a path, the text of two lines is saved and
\* terminate is set
C14_Witness ==
    /\ executed(cmd_wq)
    /\ editor.path # NoPath
    /\ Len(editor.text) >= 2
    /\ Written
    /\ ~editor.changed
    /\ editor.terminate
    /\ run = "loop"

\* C15: an I/O failure while w or wq saves is never fatal: the editor
\* prints an error, terminate stays as it was, the run loop goes on reading
\* events and the buffer stays dirty.
C15_SaveFailureNotFatal ==
    [][((Executes(cmd_w) \/ Executes(cmd_wq)) /\ elast'.io # IoOk)
       => /\ run' = "loop"
          /\ message'.level = "Error"
          /\ editor'.terminate = editor.terminate
          /\ editor'.changed = editor.changed]_vars

\* C26: the terminate flag starts false; it changes from false to true
\* only while one of the commands q (on a clean buffer), q! or wq (with a
\* path) is executed; no other key event, no resize and no change of mode
\* changes it; once true it is never reset to false.
C26_TerminateOnlyByQuit ==
    /\ ~editor.terminate
    /\ [][/\ editor.terminate => editor'.terminate
          /\ (~editor.terminate /\ editor'.terminate)
             => \/ Executes(cmd_q) /\ ~editor.changed
                \/ Executes(cmd_q_bang)
                \/ Executes(cmd_wq) /\ editor.path # NoPath]_vars

\* a command has set terminate, and the flag is still set after later keys
\* have changed the mode and the text
C26_Witness ==
    /\ editor.terminate
    /\ editor.changed
    /\ editor.mode = "Insert"
    /\ elast.kind = "Key"
    /\ run = "loop"

\* the changes of mode a single key event may make
AllowedModeChanges ==
    {<<"Normal", "Insert">>, <<"Normal", "Command">>,
     <<"Insert", "Normal">>, <<"Command", "Normal">>}

\* the pairs (mode, target) for which the default key map resolves some key
\* event in the mode to actions with ChangeMode(target) among them
DefaultModeChanges ==
    {p \in Modes \X Modes :
        \E code \in KeyCodes, modifiers \in ModifierSets :
            LET res == handle(KeyMap_default, p[1], KeyEvent(code, modifiers))
            IN  /\ res # None
                /\ \E i \in 1..Len(unwrap(res)) :
                       unwrap(res)[i] = ChangeMode(p[2])}

\* what the editor is after Esc is pressed in the state
AfterEsc == handle_key(AtWork, KeyPress(Code("Esc"), KeyModifiers_empty), IoOk)

\* C32: the mode starts as Normal, and a single key event changes it only
\* from Normal to Insert, from Normal to Command, from Insert to Normal and
\* from Command to Normal, in the editor and in the actions of the default
\* bindings: no key event leads from Insert to Command or from Command to
\* Insert, no other event changes the mode, and in every mode the one key
\* event Esc leads to Normal.
C32_ModeTransitions ==
    /\ editor.mode = "Normal"
    /\ DefaultModeChanges = AllowedModeChanges
    /\ \A mode \in {"Insert", "Command"} :
           handle(KeyMap_default, mode, KeyEvent(Code("Esc"), KeyModifiers_empty))
               = Some(<<ChangeMode("Normal")>>)
    /\ [][/\ editor'.mode # editor.mode
             => /\ <<editor.mode, editor'.mode>> \in AllowedModeChanges
                /\ elast'.kind = "Key"
          /\ run = "loop"
             => /\ AfterEsc.ed.mode = "Normal"
                /\ ~AfterEsc.err
                /\ ~AfterEsc.panic]_vars

\* the editor is in Command mode with a text that was changed: it has gone
\* from Normal to Insert, back to Normal and on to Command
C32_Witness ==
    /\ editor.mode = "Command"
    /\ editor.changed
    /\ elast.kind = "Key"
    /\ run = "loop"

\* C33: whenever the run loop exits because the command q (not q! or wq)
\* has set terminate, the buffer is not dirty at the exit: no key event
\* queued behind q is applied to the buffer between the command setting
\* terminate and the loop seeing it.
C33_QuitExitsClean ==
    (run = "returned Ok" /\ quit = Some(cmd_q)) => ~editor.changed

\* the command texts execute_command knows
Known(command) ==
    \/ command \in {cmd_q, cmd_q_bang, cmd_w, cmd_wq}
    \/ /\ Len(command) >= Len(cmd_print)
       /\ \A i \in 1..Len(cmd_print) : command[i] = cmd_print[i]

\* C16: every command text other than exactly q, q!, w, wq or a text
\* starting with "print " prints the error "Not an editor command: <text>"
\* and changes nothing but the mode and the command line, which Enter
\* leaves as Normal and empty.
C16_UnknownCommand ==
    [][\A command \in {editor.command} :
           (Executes(command) /\ ~Known(command))
           => /\ message'.level = "Error"
              /\ message'.fmt = "Not an editor command: {}"
              /\ message'.args = <<command>>
              /\ editor' = [editor EXCEPT !.mode = "Normal", !.command = <<>>]
              /\ disk' = disk
              /\ run' = "loop"]_vars

\* "print" without the space after it was executed
C16_Witness ==
    /\ executed(<<"p", "r", "i", "n", "t">>)
    /\ message.fmt = "Not an editor command: {}"
    /\ message.args = << <<"p", "r", "i", "n", "t">> >>
    /\ run = "loop"

\* Editor::save_file with a path, all of whose calls succeed, writes the
\* text as Buffer::save writes the lines, prints that N lines are written
\* and clears the dirty flag
C17_EditorSaveFile ==
    [][(Executes(cmd_w) /\ editor.path # NoPath /\ elast'.io = IoOk)
       => /\ Written'
          /\ editor'.text = editor.text
          /\ ~editor'.changed
          /\ message'.level = "Info"
          /\ message'.fmt = "\"{}\" {}L written"
          /\ message'.args = <<editor.path, Len(editor.text)>>
          /\ run' = "loop"]_vars

----------------------------------------------------------------------------
(* Properties of the buffer and its file *)

\* the step is a call of Buffer::save
Saves == InSession /\ note'.op = "save"

\* the Notification the last save returned
notification == unwrap(note.result.value)

RECURSIVE joined(_)
\* the lines with one newline between each two of them
joined(ls) ==
    IF Len(ls) = 1 THEN ls[1] ELSE ls[1] \o <<NL>> \o joined(Tail(ls))

newlines(content) == Cardinality({i \in 1..Len(content) : content[i] = NL})

NoCarriageReturn(ls) ==
    \A i \in 1..Len(ls) : \A j \in 1..Len(ls[i]) : ls[i][j] # CR

\* Buffer::save on a buffer with no path returns Ok with an Error
\* notification and leaves the buffer and the file system as they were
C13_SaveWithoutPath ==
    [][(Saves /\ buffer.path = NoPath)
       => /\ note'.result.ok
          /\ notification'.level = "Error"
          /\ buffer' = buffer
          /\ disk' = disk
          /\ ~fault']_vars

\* C17: a save of a buffer of N lines with a path, all of whose calls
\* succeed, writes the lines in their order joined by single newlines, with
\* no newline after the last (N - 1 newlines), clears the dirty flag,
\* leaves the lines as they were and returns an Info notification that
\* reports N lines written.
C17_SaveWritesLines ==
    [][(Saves /\ buffer.path # NoPath /\ note'.io = IoOk)
       => /\ disk' = [kind |-> "file", content |-> joined(buffer.lines)]
          /\ newlines(disk'.content) = Len(buffer.lines) - 1
          /\ ~buffer'.changed
          /\ buffer'.lines = buffer.lines
          /\ note'.result.ok
          /\ notification'.level = "Info"
          /\ notification'.fmt = "\"{}\" {}L written"
          /\ notification'.args = <<buffer.path, Len(buffer.lines)>>]_vars

\* two lines, one of them not empty, were saved
C17_Witness ==
    /\ note.op = "save"
    /\ note.result.ok
    /\ buffer.path # NoPath
    /\ Len(buffer.lines) = 2
    /\ total_chars(buffer.lines) >= 1
    /\ disk.content = joined(buffer.lines)
    /\ ~buffer.changed

\* C18: for a buffer whose lines hold no carriage return, a save that
\* succeeds followed by opening the path again gives a buffer with the
\* same lines and a clean dirty flag.
C18_SaveLoadRoundTrip ==
    [][(/\ note.op = "save"
        /\ note.result.ok
        /\ buffer.path # NoPath
        /\ NoCarriageReturn(buffer.lines)
        /\ note'.op = "new_from_file")
       => /\ buffer'.lines = buffer.lines
          /\ ~buffer'.changed]_vars

\* a path was opened again right after a save, and it holds more than the
\* file the buffer was first read from
C18_Witness ==
    /\ note.op = "new_from_file"
    /\ note.after = "save"
    /\ Len(disk.content) > MaxSaveChars
    /\ Len(buffer.lines) = 2
    /\ total_chars(buffer.lines) >= 1
    /\ ~buffer.changed

\* C19: the dirty flag is true if and only if the lines differ from the
\* lines at the last save that succeeded, or as they were loaded.
C19_DirtyIffDiffers == buffer.changed <=> buffer.lines # saved

\* C19, as the code has it: the dirty flag is true whenever the lines
\* differ from the lines at the last save that succeeded, or as they were
\* loaded; it is set by every edit and cleared only by such a save.
C19_DirtyIfDiffers == buffer.lines # saved => buffer.changed

\* the buffer was saved with two lines and edited since
C19_Witness ==
    /\ note.op = "edit"
    /\ Len(saved) = 2
    /\ total_chars(saved) >= 1
    /\ disk.content = joined(saved)
    /\ buffer.lines # saved
    /\ buffer.changed

====
